---------------------------- MODULE Spec2Model ----------------------------
(***************************************************************************)
(* Model of the DogeAnalyze price analyzer: the indicator engine           *)
(* (analyzer/technical_indicators.py), the trend / prediction / confidence *)
(* heuristics and the batch run (analyzer/predictor.py) and the optional   *)
(* reasoning enhancer (analyzer/local_model.py).                           *)
(*                                                                         *)
(* Numbers.  Python floats are modelled in fixed point:                    *)
(*   - money (prices, moving averages, bands) in ticks of 1e-8 USD, the    *)
(*     resolution of round(x, 8) and of the price_usd column;              *)
(*   - the RSI in tenths of a point (RsiPts(30) is an RSI of 30.0);        *)
(*   - a value between two ticks as a numerator over PctDen.               *)
(* An optional float is a record [k, v]: k = "num" with the value v,       *)
(* k = "none" for Python's None, k = "nan" for a float NaN.  A string      *)
(* value (the volume trend) is a record whose k is the string.             *)
(***************************************************************************)
EXTENDS Integers, Sequences, FiniteSets, TLC

VARIABLES
    pc,               \* position of the operation being run
    now,              \* datetime.utcnow(), in hours
    market_data,      \* the market-data frame (df) an operation works on
    ind_period,       \* the period argument of a single indicator call
    timeframe,        \* the timeframe argument ('1h' ... '30d')
    indicators,       \* the indicator mapping (a Python dict: key -> value)
    df_len,           \* len(df) of the slice handed to the heuristics
    df_last2,         \* the last two prices of the slice (<<prev, last>>) or << >>
    trend_direction,  \* 'bullish' | 'bearish' | 'neutral'
    bullish_signals,  \* vote counters of _determine_trend
    bearish_signals,
    predicted_price,  \* result of _predict_price, in ticks
    confidence_score, \* result of _calculate_confidence
    basic_reasoning,  \* result of _generate_reasoning
    reasoning,        \* the reasoning analyze_timeframe returns
    enabled,          \* LocalModelAnalyzer.enabled
    response,         \* what the model server did with the last request
    raised,           \* whether the last operation ended by raising
    tf_index,         \* run_analysis: index of the timeframe being analysed
    status,           \* script_status.status of the analyzer
    status_updates,   \* run_analysis: the update_script_status calls made
    saved,            \* rows written to analysis_results by the current run
    failed,           \* run_analysis: timeframes whose exception was logged
    table,            \* the market_data table, as the frame a query would return
    fetches,          \* run_analysis: calls of get_market_data made so far
    fetch_outcome,    \* run_analysis: how get_market_data ended ("none" before)
    handed,           \* run_analysis: timeframes passed to save_analysis_result
    source_index,     \* fetch_and_store: number of api_clients gone through
    success_count,    \* fetch_and_store: success_count
    error_messages,   \* fetch_and_store: error_messages
    attempts,         \* fetch_and_store: what happened with each source tried
    collector_status, \* script_status.status of the collector
    status_committed, \* whether the collector's status update was committed
    returned,         \* what fetch_and_store returned ("pending" until then)
    stored_before,    \* rows of market_data when the current fetch_and_store began
    clock,            \* time.time(), in seconds
    rate_limiter,     \* a client's RateLimiter: max_calls, time_window, calls
    admitted,         \* the times at which wait_if_needed let a call through
    last_wait,        \* the last wait_if_needed call: entry time, sleep, oldest call
    client,           \* the client whose fetch_dogecoin_data is running
    attempt,          \* fetch_dogecoin_data: the loop variable `attempt`
    requests_made,    \* fetch_dogecoin_data: what each requests.get came to
    retry_sleeps,     \* fetch_dogecoin_data: the time.sleep calls between attempts
    fetch_result      \* what fetch_dogecoin_data returned ("pending" until then)

vars == <<pc, now, market_data, ind_period, timeframe, indicators, df_len, df_last2,
          trend_direction, bullish_signals, bearish_signals, predicted_price,
          confidence_score, basic_reasoning, reasoning, enabled, response,
          raised, tf_index, status, status_updates, saved, failed, table,
          fetches, fetch_outcome, handed,
          source_index, success_count, error_messages, attempts,
          collector_status, status_committed, returned, stored_before,
          clock, rate_limiter, admitted, last_wait, client, attempt,
          requests_made, retry_sleeps, fetch_result>>

-----------------------------------------------------------------------------
(* Optional floats and Python's truthiness / comparison rules.             *)

Num(x) == [k |-> "num", v |-> x]
None == [k |-> "none", v |-> 0]
NaN == [k |-> "nan", v |-> 0]
Str(s) == [k |-> s, v |-> 0]

IsNum(x) == x.k = "num"

\* dict.get(key): the value, or None when the key is missing
Get(ind, key) == IF key \in DOMAIN ind THEN ind[key] ELSE None

\* dict.get(key, default)
GetOr(ind, key, default) == IF key \in DOMAIN ind THEN ind[key] ELSE default

\* bool(x) of an optional float: None and 0.0 are falsy, NaN is truthy
Truthy(x) == x.k # "none" /\ ~(x.k = "num" /\ x.v = 0)

\* a > b on floats: False as soon as one side is NaN
Gt(a, b) == IsNum(a) /\ IsNum(b) /\ a.v > b.v
Lt(a, b) == IsNum(a) /\ IsNum(b) /\ a.v < b.v

Max2(a, b) == IF a >= b THEN a ELSE b
Min2(a, b) == IF a <= b THEN a ELSE b

\* RSI points -> model units (tenths of a point)
RsiPts(x) == x * 10

\* denominator of the sub-tick values: 80 RSI points in tenths, times 100
PctDen == RsiPts(80) * 100

\* round(n/d, 0) as Python rounds an exactly representable value: to the
\* nearest integer, ties to even
RoundHalfEven(n, d) ==
    LET q == n \div d
        r == n % d
    IN  IF 2 * r < d THEN q
        ELSE IF 2 * r > d THEN q + 1
        ELSE IF q % 2 = 0 THEN q ELSE q + 1

Timeframes == {"1h", "4h", "24h", "7d", "30d"}
Trends == {"bullish", "bearish", "neutral"}

-----------------------------------------------------------------------------
(* PricePredictor._determine_trend                                          *)

\* the RSI rule: oversold votes bullish, overbought votes bearish
RsiVote(ind) ==
    LET rsi == Get(ind, "rsi")
    IN  IF rsi.k = "none" THEN <<0, 0>>
        ELSE IF Lt(rsi, Num(RsiPts(30))) THEN <<1, 0>>
        ELSE IF Gt(rsi, Num(RsiPts(70))) THEN <<0, 1>>
        ELSE <<0, 0>>

\* price against one moving average
SmaVote(ind, key) ==
    LET current_price == GetOr(ind, "current_price", Num(0))
        sma == Get(ind, key)
    IN  IF Truthy(sma) /\ Gt(current_price, sma) THEN <<1, 0>>
        ELSE IF Truthy(sma) /\ Lt(current_price, sma) THEN <<0, 1>>
        ELSE <<0, 0>>

EmaVote(ind) ==
    LET ema_12 == Get(ind, "ema_12")
        ema_26 == Get(ind, "ema_26")
    IN  IF Truthy(ema_12) /\ Truthy(ema_26) /\ Gt(ema_12, ema_26) THEN <<1, 0>>
        ELSE IF Truthy(ema_12) /\ Truthy(ema_26) /\ Lt(ema_12, ema_26) THEN <<0, 1>>
        ELSE <<0, 0>>

\* MACD against its signal line: guarded by truthiness, then a two-way split
MacdVote(ind) ==
    LET macd == Get(ind, "macd")
        macd_signal == Get(ind, "macd_signal")
    IN  IF Truthy(macd) /\ Truthy(macd_signal)
        THEN IF Gt(macd, macd_signal) THEN <<1, 0>> ELSE <<0, 1>>
        ELSE <<0, 0>>

HistogramVote(ind) ==
    LET macd_histogram == Get(ind, "macd_histogram")
    IN  IF Truthy(macd_histogram) /\ Gt(macd_histogram, Num(0)) THEN <<1, 0>>
        ELSE IF Truthy(macd_histogram) /\ Lt(macd_histogram, Num(0)) THEN <<0, 1>>
        ELSE <<0, 0>>

BollingerVote(ind) ==
    LET current_price == GetOr(ind, "current_price", Num(0))
        bb_upper == Get(ind, "bb_upper")
        bb_lower == Get(ind, "bb_lower")
    IN  IF Truthy(bb_upper) /\ Truthy(bb_lower) /\ Truthy(current_price)
        THEN IF Lt(current_price, bb_lower) THEN <<1, 0>>
             ELSE IF Gt(current_price, bb_upper) THEN <<0, 1>>
             ELSE <<0, 0>>
        ELSE <<0, 0>>

\* last two-point change in percent against +1 / -1; last2 = <<prev, last>>
\* with prev > 0, or << >> when the slice has fewer than two rows
MomentumVote(last2) ==
    IF Len(last2) < 2 THEN <<0, 0>>
    ELSE IF (last2[2] - last2[1]) * 100 > last2[1] THEN <<1, 0>>
    ELSE IF (last2[2] - last2[1]) * 100 < -last2[1] THEN <<0, 1>>
    ELSE <<0, 0>>

\* the votes before the volume rule, <<bullish_signals, bearish_signals>>
BaseVotes(ind, last2) ==
    LET vs == <<RsiVote(ind), SmaVote(ind, "sma_20"), SmaVote(ind, "sma_50"),
                EmaVote(ind), MacdVote(ind), HistogramVote(ind),
                BollingerVote(ind), MomentumVote(last2)>>
        Sum[i \in 0..Len(vs)] ==
            IF i = 0 THEN <<0, 0>>
            ELSE <<Sum[i - 1][1] + vs[i][1], Sum[i - 1][2] + vs[i][2]>>
    IN  Sum[Len(vs)]

\* high volume confirms whichever side leads
TrendVotes(ind, last2) ==
    LET b == BaseVotes(ind, last2)
        volume_trend == GetOr(ind, "volume_trend", Str("normal"))
    IN  IF volume_trend.k = "high"
        THEN IF b[1] > b[2] THEN <<b[1] + 1, b[2]>>
             ELSE IF b[2] > b[1] THEN <<b[1], b[2] + 1>>
             ELSE b
        ELSE b

\* the final decision on the two counters
FinalTrend_NoMargin(bullish, bearish) ==
    IF bullish > bearish THEN "bullish"
    ELSE IF bearish > bullish THEN "bearish"
    ELSE "neutral"

FinalTrend(bullish, bearish) ==
    IF bullish > bearish + 1 THEN "bullish"
    ELSE IF bearish > bullish + 1 THEN "bearish"
    ELSE "neutral"

_determine_trend(ind, last2) ==
    LET votes == TrendVotes(ind, last2)
    IN  FinalTrend(votes[1], votes[2])

-----------------------------------------------------------------------------
(* PricePredictor._predict_price                                            *)

\* timeframe_multipliers, in percent
TimeframeMultiplier(tf) ==
    CASE tf = "1h" -> 2
      [] tf = "4h" -> 5
      [] tf = "24h" -> 10
      [] tf = "7d" -> 20
      [] tf = "30d" -> 40
      [] OTHER -> 5

\* price_change_pct as a numerator over PctDen; the RSI skew is applied only
\* when indicators.get('rsi') is truthy
BullishPct(ind, tf) ==
    LET rsi == Get(ind, "rsi")
    IN  IF Truthy(rsi)
        THEN TimeframeMultiplier(tf) * (RsiPts(40) + GetOr(ind, "rsi", Num(RsiPts(50))).v - RsiPts(30))
        ELSE TimeframeMultiplier(tf) * RsiPts(40)

\* a bearish percentage without the base of 0.5
BearishPct_NoBase(ind, tf) ==
    LET rsi == Get(ind, "rsi")
    IN  IF Truthy(rsi)
        THEN TimeframeMultiplier(tf) * (RsiPts(70) - GetOr(ind, "rsi", Num(RsiPts(50))).v)
        ELSE TimeframeMultiplier(tf) * RsiPts(40)

BearishPct(ind, tf) ==
    LET rsi == Get(ind, "rsi")
    IN  IF Truthy(rsi)
        THEN TimeframeMultiplier(tf) * (RsiPts(40) + RsiPts(70) - GetOr(ind, "rsi", Num(RsiPts(50))).v)
        ELSE TimeframeMultiplier(tf) * RsiPts(40)

\* a version whose neutral branch leaves the price where it is
PreClampPrice_NeutralUnchanged(current_price, ind, trend, tf) ==
    IF trend = "bullish" THEN current_price * (PctDen + BullishPct(ind, tf))
    ELSE IF trend = "bearish" THEN current_price * (PctDen - BearishPct(ind, tf))
    ELSE current_price * PctDen

\* the prediction before the Bollinger cap, as a numerator over PctDen
PreClampPrice(current_price, ind, trend, tf) ==
    IF trend = "bullish" THEN current_price * (PctDen + BullishPct(ind, tf))
    ELSE IF trend = "bearish" THEN current_price * (PctDen - BearishPct(ind, tf))
    ELSE current_price * (PctDen + TimeframeMultiplier(tf) * (PctDen \div 1000))

\* bb_lower * 0.95 and bb_upper * 1.05 as numerators over PctDen
LowerCap(bb_lower) == bb_lower * ((PctDen * 95) \div 100)
UpperCap(bb_upper) == bb_upper * ((PctDen * 105) \div 100)

\* max(bb_lower * 0.95, min(bb_upper * 1.05, predicted)) when both bounds are truthy
ClampedPrice(current_price, ind, trend, tf) ==
    LET p == PreClampPrice(current_price, ind, trend, tf)
        bb_upper == Get(ind, "bb_upper")
        bb_lower == Get(ind, "bb_lower")
    IN  IF Truthy(bb_upper) /\ Truthy(bb_lower)
        THEN Max2(LowerCap(bb_lower.v), Min2(UpperCap(bb_upper.v), p))
        ELSE p

\* round(predicted_price, 8): the result in whole ticks
_predict_price(current_price, ind, trend, tf) ==
    RoundHalfEven(ClampedPrice(current_price, ind, trend, tf), PctDen)

-----------------------------------------------------------------------------
(* PricePredictor._calculate_confidence                                     *)

\* timeframe_confidence_adjustment
TimeframeConfidenceAdjustment(tf) ==
    CASE tf = "1h" -> 0
      [] tf = "4h" -> -2
      [] tf = "24h" -> -5
      [] tf = "7d" -> -15
      [] tf = "30d" -> -25
      [] OTHER -> 0

\* the values that are not None and are int or float (a NaN is a float)
IndicatorCount(ind) ==
    Cardinality({key \in DOMAIN ind : ind[key].k \in {"num", "nan"}})

\* a version without the gaps between the extreme and the moderate zones
RsiBonus_NoGap(ind) ==
    LET rsi == Get(ind, "rsi")
    IN  IF rsi.k = "none" THEN 0
        ELSE IF Lt(rsi, Num(RsiPts(25))) \/ Gt(rsi, Num(RsiPts(75))) THEN 10
        ELSE IF Lt(rsi, Num(RsiPts(40))) \/ Gt(rsi, Num(RsiPts(60))) THEN 5
        ELSE 0

RsiBonus(ind) ==
    LET rsi == Get(ind, "rsi")
    IN  IF rsi.k = "none" THEN 0
        ELSE IF Lt(rsi, Num(RsiPts(25))) \/ Gt(rsi, Num(RsiPts(75))) THEN 10
        ELSE IF (Gt(rsi, Num(RsiPts(30))) /\ Lt(rsi, Num(RsiPts(40))))
                \/ (Gt(rsi, Num(RsiPts(60))) /\ Lt(rsi, Num(RsiPts(70)))) THEN 5
        ELSE 0

\* a larger bonus for long series
DataPointsBonus_Fifteen(n) == IF n > 100 THEN 15 ELSE IF n > 50 THEN 5 ELSE 0

DataPointsBonus(n) == IF n > 100 THEN 10 ELSE IF n > 50 THEN 5 ELSE 0

\* the price strictly between the two moving averages, in either order
ConflictPenalty(ind) ==
    LET sma_20 == Get(ind, "sma_20")
        sma_50 == Get(ind, "sma_50")
        current_price == Get(ind, "current_price")
    IN  IF Truthy(sma_20) /\ Truthy(sma_50) /\ Truthy(current_price)
           /\ ((Gt(current_price, sma_20) /\ Lt(current_price, sma_50))
               \/ (Lt(current_price, sma_20) /\ Gt(current_price, sma_50)))
        THEN 10 ELSE 0

\* the sum before the final clamp
RawConfidence(ind, trend, n, tf) ==
    50 + TimeframeConfidenceAdjustment(tf)
       + Min2(20, IndicatorCount(ind) * 2)
       + (IF trend # "neutral" THEN 10 ELSE 0)
       + RsiBonus(ind)
       + DataPointsBonus(n)
       - ConflictPenalty(ind)

\* a version that neither caps the indicator bonus nor clamps the sum
_calculate_confidence_Unbounded(ind, trend, n, tf) ==
    RawConfidence(ind, trend, n, tf) - Min2(20, IndicatorCount(ind) * 2)
        + IndicatorCount(ind) * 2

_calculate_confidence(ind, trend, n, tf) ==
    Max2(0, Min2(100, RawConfidence(ind, trend, n, tf)))

-----------------------------------------------------------------------------
(* TechnicalIndicators: each operator gives the latest value (.iloc[-1]) of *)
(* the pandas series the method returns, for a non-empty price sequence.    *)

RECURSIVE SumFromTo(_, _, _)
SumFromTo(s, lo, hi) == IF lo > hi THEN 0 ELSE s[hi] + SumFromTo(s, lo, hi - 1)

\* delta = prices.diff(): delta[i] for i >= 2
Delta(prices, i) == prices[i] - prices[i - 1]

\* a variant that sums the gains of the whole series (an expanding window)
GainSum_WholeSeries(prices, period) ==
    LET n == Len(prices)
        g == [i \in 1..n |-> IF i >= 2 /\ Delta(prices, i) > 0 THEN Delta(prices, i) ELSE 0]
    IN  SumFromTo(g, 1, n)

\* sum over the last `period` rows of delta.where(delta > 0, 0)
GainSum(prices, period) ==
    LET n == Len(prices)
        g == [i \in 1..n |-> IF i >= 2 /\ Delta(prices, i) > 0 THEN Delta(prices, i) ELSE 0]
    IN  SumFromTo(g, n - period + 1, n)

\* sum over the last `period` rows of -delta.where(delta < 0, 0)
LossSum(prices, period) ==
    LET n == Len(prices)
        l == [i \in 1..n |-> IF i >= 2 /\ Delta(prices, i) < 0 THEN -Delta(prices, i) ELSE 0]
    IN  SumFromTo(l, n - period + 1, n)

\* a variant that saturates whenever the average loss is zero, flat series
\* included
RelativeStrength_ZeroLossSaturates(gain, loss) ==
    IF loss = 0 THEN [k |-> "inf", num |-> 1, den |-> 0]
    ELSE [k |-> "num", num |-> gain, den |-> loss]

\* rs = gain / loss on floats: x/0 is inf, 0/0 is NaN, nothing is raised
RelativeStrength(gain, loss) ==
    IF loss = 0
    THEN IF gain = 0 THEN [k |-> "nan", num |-> 0, den |-> 1]
         ELSE [k |-> "inf", num |-> 1, den |-> 0]
    ELSE [k |-> "num", num |-> gain, den |-> loss]

\* rsi = 100 - 100 / (1 + rs), in tenths of a point
RsiOfRs(rs) ==
    IF rs.k = "nan" THEN NaN
    ELSE IF rs.k = "inf" THEN Num(RsiPts(100))
    ELSE Num((RsiPts(100) * rs.num) \div (rs.num + rs.den))

\* a variant whose length guard is off by one (len(prices) < period)
calculate_rsi_OffByOne(prices, period) ==
    IF Len(prices) < period THEN NaN
    ELSE RsiOfRs(RelativeStrength(GainSum(prices, period), LossSum(prices, period)))

calculate_rsi(prices, period) ==
    IF Len(prices) < period + 1 THEN NaN
    ELSE RsiOfRs(RelativeStrength(GainSum(prices, period), LossSum(prices, period)))

\* prices.rolling(window=period).mean(): NaN until the window is full
calculate_sma(prices, period) ==
    LET n == Len(prices)
    IN  IF n < period THEN NaN
        ELSE Num(SumFromTo(prices, n - period + 1, n) \div period)

\* prices.ewm(span=period, adjust=False).mean(): seeded by the first value,
\* alpha = 2 / (period + 1); defined from the first row on
EwmSeq(values, period) ==
    LET n == Len(values)
        \* the recurrence over lo..hi, continued from the value before lo
        Run(before, lo, hi) ==
            LET e[i \in lo..hi] ==
                    IF i = 1 THEN values[1]
                    ELSE (2 * values[i]
                          + (period - 1) * (IF i = lo THEN before ELSE e[i - 1]))
                         \div (period + 1)
            IN  [j \in 1..(hi - lo + 1) |-> e[lo + j - 1]]
        \* the values after those already computed, 32 at a time
        Extend(done) ==
            IF Len(done) = 0 THEN Run(0, 1, Min2(32, n))
            ELSE done \o Run(done[Len(done)], Len(done) + 1,
                             Min2(Len(done) + 32, n))
        upto[k \in 0..((n + 31) \div 32)] ==
            IF k = 0 THEN << >> ELSE Extend(upto[k - 1])
    IN  upto[(n + 31) \div 32]

calculate_ema(prices, period) == Num(EwmSeq(prices, period)[Len(prices)])

\* (macd_line, signal_line, histogram), latest values
calculate_macd(prices, fast_period, slow_period, signal_period) ==
    LET n == Len(prices)
        ema_fast == EwmSeq(prices, fast_period)
        ema_slow == EwmSeq(prices, slow_period)
        macd_line == [i \in 1..n |-> ema_fast[i] - ema_slow[i]]
        signal_line == EwmSeq(macd_line, signal_period)
    IN  <<Num(macd_line[n]), Num(signal_line[n]), Num(macd_line[n] - signal_line[n])>>

\* floor of the square root, by bisection on [lo, hi]
RECURSIVE ISqrtIn(_, _, _)
ISqrtIn(x, lo, hi) ==
    IF lo >= hi THEN lo
    ELSE LET mid == (lo + hi + 1) \div 2
         IN  IF mid * mid <= x THEN ISqrtIn(x, mid, hi) ELSE ISqrtIn(x, lo, mid - 1)

ISqrt(x) == ISqrtIn(x, 0, Min2(x, 46340))

\* num_std * rolling(window=period).std() (sample deviation, ddof = 1), from
\* the deviations to the floored mean
BandWidth(prices, period, num_std) ==
    LET n == Len(prices)
        m == SumFromTo(prices, n - period + 1, n) \div period
        d == [i \in 1..n |-> prices[i] - m]
        d2 == [i \in 1..n |-> d[i] * d[i]]
        s1 == SumFromTo(d, n - period + 1, n)
        s2 == SumFromTo(d2, n - period + 1, n)
    IN  IF period < 2 THEN 0
        ELSE ISqrt((num_std * num_std * (s2 - (s1 * s1) \div period)) \div (period - 1))

\* (upper_band, sma, lower_band), latest values
calculate_bollinger_bands(prices, period, num_std) ==
    LET sma == calculate_sma(prices, period)
    IN  IF sma.k = "nan" \/ period < 2 THEN <<NaN, sma, NaN>>
        ELSE <<Num(sma.v + BandWidth(prices, period, num_std)), sma,
               Num(sma.v - BandWidth(prices, period, num_std))>>

\* volumes.mean(): NaN entries are skipped; NaN when nothing is left
VolumeMean(volumes) ==
    LET n == Len(volumes)
        x == [i \in 1..n |-> IF IsNum(volumes[i]) THEN volumes[i].v ELSE 0]
        c == Cardinality({i \in 1..n : IsNum(volumes[i])})
    IN  IF c = 0 THEN NaN ELSE Num(SumFromTo(x, 1, n) \div c)

\* volume_ratio = current / avg_volume if avg_volume > 0 else 1.0, as the
\* pair <<numerator, denominator>>, or << >> for a NaN
VolumeRatio(volumes) ==
    LET n == Len(volumes)
        x == [i \in 1..n |-> IF IsNum(volumes[i]) THEN volumes[i].v ELSE 0]
        c == Cardinality({i \in 1..n : IsNum(volumes[i])})
        total == SumFromTo(x, 1, n)
        current == volumes[n]
    IN  IF c > 0 /\ total > 0
        THEN IF IsNum(current) THEN <<current.v * c, total>> ELSE << >>
        ELSE <<1, 1>>

\* calculate_volume_analysis for a non-empty volume series; volume_ratio is
\* kept in hundredths
calculate_volume_analysis(volumes) ==
    LET ratio == VolumeRatio(volumes)
        volume_trend ==
            IF Len(ratio) = 0 THEN "normal"
            ELSE IF 2 * ratio[1] > 3 * ratio[2] THEN "high"
            ELSE IF 2 * ratio[1] < ratio[2] THEN "low"
            ELSE "normal"
    IN  [avg_volume |-> VolumeMean(volumes),
         current_volume |-> volumes[Len(volumes)],
         volume_ratio |-> IF Len(ratio) = 0 THEN NaN
                          ELSE Num((100 * ratio[1]) \div ratio[2]),
         volume_trend |-> Str(volume_trend)]

\* float(x) if not pd.isna(x) else None
NoneIfNaN(x) == IF x.k = "nan" THEN None ELSE x

\* A data frame is [cols: the column names, rows: the rows in order]; a row
\* is [timestamp (hours), price_usd (ticks), volume_24h (optional float)].
Empty(df) == Len(df.rows) = 0 \/ df.cols = {}

PriceCol(df) == [i \in 1..Len(df.rows) |-> df.rows[i].price_usd]
VolumeCol(df) == [i \in 1..Len(df.rows) |-> df.rows[i].volume_24h]

calculate_all_indicators(df) ==
    IF Empty(df) \/ "price_usd" \notin df.cols THEN << >>
    ELSE
      LET prices == PriceCol(df)
          macd == calculate_macd(prices, 12, 26, 9)
          bb == calculate_bollinger_bands(prices, 20, 2)
          price_part ==
            [rsi |-> NoneIfNaN(calculate_rsi(prices, 14)),
             sma_20 |-> NoneIfNaN(calculate_sma(prices, 20)),
             sma_50 |-> NoneIfNaN(calculate_sma(prices, 50)),
             sma_200 |-> NoneIfNaN(calculate_sma(prices, 200)),
             ema_12 |-> NoneIfNaN(calculate_ema(prices, 12)),
             ema_26 |-> NoneIfNaN(calculate_ema(prices, 26)),
             macd |-> NoneIfNaN(macd[1]),
             macd_signal |-> NoneIfNaN(macd[2]),
             macd_histogram |-> NoneIfNaN(macd[3]),
             bb_upper |-> NoneIfNaN(bb[1]),
             bb_middle |-> NoneIfNaN(bb[2]),
             bb_lower |-> NoneIfNaN(bb[3]),
             current_price |-> Num(prices[Len(prices)])]
      IN  IF "volume_24h" \in df.cols
          THEN calculate_volume_analysis(VolumeCol(df)) @@ price_part
          ELSE price_part

-----------------------------------------------------------------------------
(* PricePredictor.analyze_timeframe: the slice a timeframe is analysed on   *)

\* timeframe_hours_map
TimeframeHours(tf) ==
    CASE tf = "1h" -> 1
      [] tf = "4h" -> 4
      [] tf = "24h" -> 24
      [] tf = "7d" -> 7 * 24
      [] tf = "30d" -> 30 * 24
      [] OTHER -> 24

\* df.tail(k)
TailRows(rows, k) == SubSeq(rows, Len(rows) - k + 1, Len(rows))

\* the slice with a cutoff of one horizon instead of two
TimeframeSlice_SingleHorizon(df, tf, t_now) ==
    LET hours == TimeframeHours(tf)
        cutoff == t_now - hours
        Recent(r) == r.timestamp >= cutoff
        data_points_needed == (hours * 2) * 12
        first == IF "timestamp" \in df.cols
                 THEN SelectSeq(df.rows, Recent)
                 ELSE TailRows(df.rows, Min2(Len(df.rows), data_points_needed))
    IN  [cols |-> df.cols,
         rows |-> IF Len(first) = 0
                  THEN TailRows(df.rows, Min2(Len(df.rows), 50))
                  ELSE first]

\* the rows at or after the cutoff (or, without a timestamp column, the last
\* 12 rows per hour), and the last 50 rows when that selects nothing
TimeframeSlice(df, tf, t_now) ==
    LET hours == TimeframeHours(tf)
        cutoff == t_now - hours * 2
        Recent(r) == r.timestamp >= cutoff
        data_points_needed == (hours * 2) * 12
        first == IF "timestamp" \in df.cols
                 THEN SelectSeq(df.rows, Recent)
                 ELSE TailRows(df.rows, Min2(Len(df.rows), data_points_needed))
    IN  [cols |-> df.cols,
         rows |-> IF Len(first) = 0
                  THEN TailRows(df.rows, Min2(Len(df.rows), 50))
                  ELSE first]

\* the last two prices of a slice, for the momentum rule
LastTwo(df) ==
    IF Len(df.rows) >= 2 /\ "price_usd" \in df.cols
    THEN <<df.rows[Len(df.rows) - 1].price_usd, df.rows[Len(df.rows)].price_usd>>
    ELSE << >>

-----------------------------------------------------------------------------
(* PricePredictor._generate_reasoning.  The text is the sequence of its     *)
(* " | "-joined parts; a part is [t: which sentence, s: the word and a, b:  *)
(* the numbers formatted into it].                                          *)

Part(t, s, a, b) == [t |-> t, s |-> s, a |-> a, b |-> b]

\* timeframe_display
TimeframeLabel(tf) ==
    CASE tf = "1h" -> "1 hour"
      [] tf = "4h" -> "4 hours"
      [] tf = "24h" -> "24 hours"
      [] tf = "7d" -> "7 days"
      [] tf = "30d" -> "30 days (1 month)"
      [] OTHER -> tf

Abs(x) == IF x < 0 THEN -x ELSE x

\* (predicted - current) / current raises ZeroDivisionError on Python floats
ReasoningRaises(current_price) == current_price = 0

_generate_reasoning(ind, trend, predicted, current_price, tf) ==
    LET direction == IF predicted - current_price > 0 THEN "increase" ELSE "decrease"
        \* abs(price_change_pct) to two decimals, in hundredths of a percent
        pct2 == RoundHalfEven(Abs(predicted - current_price) * 10000, current_price)
        rsi == Get(ind, "rsi")
        sma_20 == Get(ind, "sma_20")
        sma_50 == Get(ind, "sma_50")
        macd == Get(ind, "macd")
        macd_signal == Get(ind, "macd_signal")
        volume_trend == Get(ind, "volume_trend")
        head == <<Part("Analysis for", TimeframeLabel(tf), 0, 0),
                  Part("Current price", "", current_price, 0),
                  Part("Predicted price", direction, predicted, pct2),
                  Part("Trend", trend, 0, 0)>>
        note == IF tf \in {"7d", "30d"}
                THEN <<Part("Note: higher uncertainty", TimeframeLabel(tf), 0, 0)>>
                ELSE << >>
        rsi_part ==
            IF rsi.k = "none" THEN << >>
            ELSE IF Lt(rsi, Num(RsiPts(30))) THEN <<Part("RSI", "oversold", rsi.v, 0)>>
            ELSE IF Gt(rsi, Num(RsiPts(70))) THEN <<Part("RSI", "overbought", rsi.v, 0)>>
            ELSE <<Part("RSI", "neutral", rsi.v, 0)>>
        ma_part ==
            IF Truthy(sma_20) /\ Truthy(sma_50)
            THEN IF Gt(Num(current_price), sma_20) /\ Gt(sma_20, sma_50)
                 THEN <<Part("Price vs SMA 20 and SMA 50", "above both (bullish)", 0, 0)>>
                 ELSE IF Lt(Num(current_price), sma_20) /\ Lt(sma_20, sma_50)
                 THEN <<Part("Price vs SMA 20 and SMA 50", "below both (bearish)", 0, 0)>>
                 ELSE << >>
            ELSE << >>
        macd_part ==
            IF macd.k # "none" /\ macd_signal.k # "none"
            THEN IF Gt(macd, macd_signal)
                 THEN <<Part("MACD", "above signal line (bullish momentum)", 0, 0)>>
                 ELSE <<Part("MACD", "below signal line (bearish momentum)", 0, 0)>>
            ELSE << >>
        volume_part ==
            IF volume_trend.k # "none"
            THEN <<Part("Volume is", volume_trend.k, 0, 0)>>
            ELSE << >>
    IN  head \o note \o rsi_part \o ma_part \o macd_part \o volume_part

-----------------------------------------------------------------------------
(* LocalModelAnalyzer: the optional enhancer.  What the model server does   *)
(* with one request is a record [kind, status, body]:                       *)
(*   kind   "timeout" | "unreachable" | "http"                              *)
(*   status the HTTP status code of an "http" answer                        *)
(*   body   "analysis" (well-formed, non-empty content) | "not json" |      *)
(*          "not an object" | "no choices" | "empty content" |              *)
(*          "null content"                                                  *)

\* response.raise_for_status(): HTTPError for 4xx and 5xx only
RaiseForStatus(status_code) == status_code >= 400 /\ status_code < 600

\* _build_prompt / _format_indicators raise on a zero current price and on
\* formatting a missing value next to a present one
PromptRaises(ind, current_price) ==
    \/ current_price = 0
    \/ Get(ind, "macd").k # "none" /\ Get(ind, "macd_signal").k = "none"
    \/ Truthy(Get(ind, "bb_upper")) /\ Truthy(Get(ind, "bb_lower"))
          /\ Get(ind, "bb_middle").k = "none"
    \/ Get(ind, "volume_trend").k # "none" /\ Get(ind, "volume_ratio").k = "none"

\* _call_model: [raised, text]; text is the content's parts, << >> for None.
\* Timeout, RequestException (an HTTPError too) and KeyError / ValueError /
\* JSONDecodeError are caught there; a TypeError or AttributeError is not.
_call_model(resp) ==
    IF resp.kind \in {"timeout", "unreachable"}
    THEN [raised |-> FALSE, text |-> << >>]
    ELSE IF RaiseForStatus(resp.status) THEN [raised |-> FALSE, text |-> << >>]
    ELSE IF resp.body = "not json" THEN [raised |-> FALSE, text |-> << >>]
    ELSE IF resp.body \in {"not an object", "null content"}
    THEN [raised |-> TRUE, text |-> << >>]
    ELSE IF resp.body \in {"no choices", "empty content"}
    THEN [raised |-> FALSE, text |-> << >>]
    ELSE [raised |-> FALSE, text |-> <<Part("LLM analysis", resp.body, 0, 0)>>]

\* the body of generate_analysis's try block
GenerateBody(resp, ind, current_price) ==
    IF PromptRaises(ind, current_price) THEN [raised |-> TRUE, text |-> << >>]
    ELSE _call_model(resp)

\* generate_analysis: None when disabled, and every Exception raised by the
\* prompt or by the call is caught and becomes None
generate_analysis(is_enabled, resp, ind, current_price) ==
    IF ~is_enabled THEN [raised |-> FALSE, text |-> << >>]
    ELSE IF GenerateBody(resp, ind, current_price).raised
    THEN [raised |-> FALSE, text |-> << >>]
    ELSE GenerateBody(resp, ind, current_price)

EnhancedMarker == Part("--- Enhanced Analysis ---", "", 0, 0)

\* a version that returns the model's text in place of the basic reasoning
enhance_reasoning_Replace(is_enabled, resp, ind, current_price, basic) ==
    LET enhanced_analysis == generate_analysis(is_enabled, resp, ind, current_price)
    IN  IF ~is_enabled THEN [raised |-> FALSE, text |-> basic]
        ELSE IF enhanced_analysis.raised THEN [raised |-> TRUE, text |-> << >>]
        ELSE IF Len(enhanced_analysis.text) > 0
        THEN [raised |-> FALSE, text |-> <<EnhancedMarker>> \o enhanced_analysis.text]
        ELSE [raised |-> FALSE, text |-> basic]

\* enhance_reasoning: [raised, text]
enhance_reasoning(is_enabled, resp, ind, current_price, basic) ==
    LET enhanced_analysis == generate_analysis(is_enabled, resp, ind, current_price)
    IN  IF ~is_enabled THEN [raised |-> FALSE, text |-> basic]
        ELSE IF enhanced_analysis.raised THEN [raised |-> TRUE, text |-> << >>]
        ELSE IF Len(enhanced_analysis.text) > 0
        THEN [raised |-> FALSE,
              text |-> basic \o <<EnhancedMarker>> \o enhanced_analysis.text]
        ELSE [raised |-> FALSE, text |-> basic]

-----------------------------------------------------------------------------
(* PricePredictor.analyze_timeframe.  The result is a record: raised tells  *)
(* whether the call ended with an exception; otherwise the five returned    *)
(* values, with the locals the heuristics worked on (the slice's length and *)
(* last two prices, the vote counters, the composer's text).                *)

\* a sentinel that keeps the scorer's base confidence of 50
SentinelResult_BaseConfidence(text) ==
    [raised |-> FALSE, predicted_price |-> 0, confidence_score |-> 50,
     trend_direction |-> "neutral", indicators |-> << >>,
     reasoning |-> <<Part(text, "", 0, 0)>>, basic_reasoning |-> << >>,
     df_len |-> 0, df_last2 |-> << >>, votes |-> <<0, 0>>]

SentinelResult(text) ==
    [raised |-> FALSE, predicted_price |-> 0, confidence_score |-> 0,
     trend_direction |-> "neutral", indicators |-> << >>,
     reasoning |-> <<Part(text, "", 0, 0)>>, basic_reasoning |-> << >>,
     df_len |-> 0, df_last2 |-> << >>, votes |-> <<0, 0>>]

RaisedResult ==
    [raised |-> TRUE, predicted_price |-> 0, confidence_score |-> 0,
     trend_direction |-> "neutral", indicators |-> << >>,
     reasoning |-> << >>, basic_reasoning |-> << >>,
     df_len |-> 0, df_last2 |-> << >>, votes |-> <<0, 0>>]

\* the tuple analyze_timeframe is about to hand to the enhancer
ComposeResult(ind, timeframe_df, tf, trend, predicted) ==
    LET basic == _generate_reasoning(ind, trend, predicted,
                                     ind["current_price"].v, tf)
    IN  [raised |-> FALSE,
         predicted_price |-> predicted,
         confidence_score |->
             _calculate_confidence(ind, trend, Len(timeframe_df.rows), tf),
         trend_direction |-> trend,
         indicators |-> ind,
         reasoning |-> basic,
         basic_reasoning |-> basic,
         df_len |-> Len(timeframe_df.rows),
         df_last2 |-> LastTwo(timeframe_df),
         votes |-> TrendVotes(ind, LastTwo(timeframe_df))]

\* _predict_price, _calculate_confidence and _generate_reasoning on the trend
ScoreTrend(ind, timeframe_df, tf, trend) ==
    IF ReasoningRaises(ind["current_price"].v) THEN RaisedResult
    ELSE ComposeResult(ind, timeframe_df, tf, trend,
                       _predict_price(ind["current_price"].v, ind, trend, tf))

\* the insufficient-data check, then _determine_trend
ScoreIndicators(ind, timeframe_df, tf) ==
    IF DOMAIN ind = {} \/ Get(ind, "current_price").k = "none"
    THEN SentinelResult("Insufficient data for analysis")
    ELSE ScoreTrend(ind, timeframe_df, tf,
                    _determine_trend(ind, LastTwo(timeframe_df)))

\* calculate_all_indicators on the timeframe's slice
ScoreSlice(timeframe_df, tf) ==
    ScoreIndicators(calculate_all_indicators(timeframe_df), timeframe_df, tf)

\* analyze_timeframe up to and including _generate_reasoning: everything
\* that does not depend on the model server
AnalyzeScores(df, tf, t_now) ==
    IF Empty(df) THEN SentinelResult("No data available")
    ELSE ScoreSlice(TimeframeSlice(df, tf, t_now), tf)

\* the call of local_model.enhance_reasoning that ends analyze_timeframe
EnhanceScores(scores, is_enabled, resp) ==
    IF scores.raised \/ DOMAIN scores.indicators = {} THEN scores
    ELSE
      LET enhanced == enhance_reasoning(is_enabled, resp, scores.indicators,
                                        scores.indicators["current_price"].v,
                                        scores.basic_reasoning)
      IN  [scores EXCEPT !.raised = enhanced.raised,
                         !.reasoning = enhanced.text]

analyze_timeframe(df, tf, t_now, is_enabled, resp) ==
    EnhanceScores(AnalyzeScores(df, tf, t_now), is_enabled, resp)

-----------------------------------------------------------------------------
(* State shared by the specifications below.  Each specification draws the  *)
(* inputs of the operation it exercises and leaves the rest at these values.*)

EmptyFrame == [cols |-> {}, rows |-> << >>]
NoResponse == [kind |-> "none", status |-> 0, body |-> ""]

frameVars == <<now, market_data, ind_period>>
scoreVars == <<bullish_signals, bearish_signals, predicted_price, confidence_score>>
textVars == <<basic_reasoning, reasoning, enabled, response, raised>>
clientVars == <<clock, rate_limiter, admitted, last_wait, client, attempt,
                requests_made, retry_sleeps, fetch_result>>
storeVars == <<source_index, success_count, error_messages, attempts,
               collector_status, status_committed, returned, stored_before>>
collectorVars == <<storeVars, clientVars>>
runVars == <<tf_index, status, status_updates, saved, failed, table, fetches,
             fetch_outcome, handed,
             collectorVars>>

NoFrame == now = 0 /\ market_data = EmptyFrame /\ ind_period = 0
NoScores ==
    /\ bullish_signals = 0 /\ bearish_signals = 0
    /\ predicted_price = 0 /\ confidence_score = 0
NoText ==
    /\ basic_reasoning = << >> /\ reasoning = << >>
    /\ enabled = FALSE /\ response = NoResponse /\ raised = FALSE
NoWait == [entered |-> 0, slept |-> 0, oldest |-> 0, full |-> FALSE]
NoClient ==
    /\ clock = 0
    /\ rate_limiter = [max_calls |-> 1, time_window |-> 1, calls |-> << >>]
    /\ admitted = << >> /\ last_wait = NoWait
    /\ client = "" /\ attempt = 0
    /\ requests_made = << >> /\ retry_sleeps = << >>
    /\ fetch_result = "pending"
NoCollector ==
    /\ NoClient
    /\ source_index = 0 /\ success_count = 0 /\ error_messages = << >>
    /\ attempts = << >>
    /\ collector_status = [status |-> "none", message |-> << >>]
    /\ status_committed = FALSE /\ returned = "pending"
    /\ stored_before = 0
NoRun ==
    /\ tf_index = 0 /\ status = "idle" /\ saved = << >> /\ failed = {}
    /\ status_updates = << >> /\ fetch_outcome = "none"
    /\ table = EmptyFrame /\ fetches = 0 /\ handed = << >>
    /\ NoCollector

-----------------------------------------------------------------------------
(* SpecTrend: _determine_trend applied to indicator mappings drawn from     *)
(* bounded sets.                                                            *)

\* <<bb_upper, bb_lower>>: absent, price above the band, price below it
TrendBands == {<<None, None>>, <<Num(95), Num(80)>>, <<Num(120), Num(105)>>}

\* <<prev, last>> of the slice: no second row, +2 %, -2 %, +1 % exactly
TrendLastTwo == {<< >>, <<100, 102>>, <<100, 98>>, <<100, 101>>}

InitTrend ==
    /\ pc = "input"
    /\ \E rsi \in {None, Num(RsiPts(20)), Num(RsiPts(80))},
          sma_20 \in {None, Num(90), Num(110)},
          sma_50 \in {Num(90), Num(110)},
          ema_26 \in {Num(90), Num(110)},
          macd \in {Num(0), Num(2)},
          macd_signal \in {None, Num(0), Num(1), Num(3)},
          macd_histogram \in {Num(-1), Num(1)},
          bb \in TrendBands,
          volume_trend \in {"high", "normal"} :
            indicators = [rsi |-> rsi, sma_20 |-> sma_20, sma_50 |-> sma_50,
                          ema_12 |-> Num(100), ema_26 |-> ema_26,
                          macd |-> macd, macd_signal |-> macd_signal,
                          macd_histogram |-> macd_histogram,
                          bb_upper |-> bb[1], bb_lower |-> bb[2],
                          current_price |-> Num(100),
                          volume_trend |-> Str(volume_trend)]
    /\ df_last2 \in TrendLastTwo
    /\ df_len = Len(df_last2)
    /\ timeframe = "24h"
    /\ trend_direction = "neutral"
    /\ NoFrame /\ NoScores /\ NoText /\ NoRun

DetermineTrend ==
    /\ pc = "input"
    /\ bullish_signals' = TrendVotes(indicators, df_last2)[1]
    /\ bearish_signals' = TrendVotes(indicators, df_last2)[2]
    /\ trend_direction' = _determine_trend(indicators, df_last2)
    /\ pc' = "trend_done"
    /\ UNCHANGED <<timeframe, indicators, df_len, df_last2, predicted_price,
                   confidence_score>>
    /\ UNCHANGED <<frameVars, textVars, runVars>>

NextTrend == DetermineTrend

SpecTrend == InitTrend /\ [][NextTrend]_vars

\* C7: the label _determine_trend returns is 'bullish' exactly when
\* bullish_signals > bearish_signals + 1, 'bearish' exactly when
\* bearish_signals > bullish_signals + 1, and 'neutral' in every other case;
\* it is always one of the three labels.
C7_DecisionRule ==
    pc = "trend_done" =>
        /\ trend_direction \in Trends
        /\ (trend_direction = "bullish") <=> (bullish_signals > bearish_signals + 1)
        /\ (trend_direction = "bearish") <=> (bearish_signals > bullish_signals + 1)
        /\ (trend_direction = "neutral") <=>
               (/\ ~(bullish_signals > bearish_signals + 1)
                /\ ~(bearish_signals > bullish_signals + 1))

\* a one-vote lead is inside the margin and stays neutral
C7_Witness ==
    /\ pc = "trend_done"
    /\ bullish_signals = bearish_signals + 1
    /\ bearish_signals > 0
    /\ trend_direction = "neutral"


\* the vote of the MACD rule as the specification words it: one vote whenever
\* both values are present, none otherwise
ListedMacdVote ==
    IF indicators["macd"].k = "num" /\ indicators["macd_signal"].k = "num"
    THEN IF indicators["macd"].v > indicators["macd_signal"].v
         THEN <<1, 0>> ELSE <<0, 1>>
    ELSE <<0, 0>>

\* the number of votes of the seven other rules, before the volume rule
OtherVoteCount ==
    LET Both(v) == v[1] + v[2]
    IN  Both(RsiVote(indicators)) + Both(SmaVote(indicators, "sma_20"))
          + Both(SmaVote(indicators, "sma_50")) + Both(EmaVote(indicators))
          + Both(HistogramVote(indicators)) + Both(BollingerVote(indicators))
          + Both(MomentumVote(df_last2))

\* C20: whenever MACD and its signal are both present, the value 0 included,
\* the MACD rule casts exactly one vote, bullish if MACD > signal and bearish
\* otherwise; when either is absent it casts none.
C20_MacdVotesWheneverPresent ==
    pc = "trend_done" =>
        /\ MacdVote(indicators) = ListedMacdVote
        /\ indicators["volume_trend"] = Str("normal") =>
              bullish_signals + bearish_signals
                 = OtherVoteCount + ListedMacdVote[1] + ListedMacdVote[2]

-----------------------------------------------------------------------------
(* SpecPredict: _predict_price applied to prices, RSI values, Bollinger     *)
(* bounds, trends and timeframes drawn from bounded sets.                   *)

\* largest current price drawn, in ticks
MaxPrice == 12

\* RSI values in [0, 100], or absent
PredictRsi == {None, Num(RsiPts(0)), Num(RsiPts(5)), Num(RsiPts(30)),
               Num(RsiPts(50)), Num(RsiPts(70)), Num(RsiPts(100))}

\* <<bb_upper, bb_lower>> as a positive price series gives them: both absent,
\* or bb_upper > 0 and bb_lower <= bb_upper (the lower band may be <= 0)
PredictBands ==
    {<<None, None>>}
      \cup {<<Num(u), Num(l)>> : u \in {1, 11, 13}, l \in {-3, 0, 1}}
      \cup {<<Num(u), Num(11)>> : u \in {11, 13}}

InitPredict ==
    /\ pc = "input"
    /\ \E current_price \in 1..MaxPrice, rsi \in PredictRsi, bb \in PredictBands :
            indicators = [rsi |-> rsi, bb_upper |-> bb[1], bb_lower |-> bb[2],
                          current_price |-> Num(current_price)]
    /\ trend_direction \in Trends
    /\ timeframe \in Timeframes
    /\ df_len = 0 /\ df_last2 = << >>
    /\ NoFrame /\ NoScores /\ NoText /\ NoRun

PredictPrice ==
    /\ pc = "input"
    /\ predicted_price' = _predict_price(indicators.current_price.v, indicators,
                                         trend_direction, timeframe)
    /\ pc' = "predicted"
    /\ UNCHANGED <<timeframe, indicators, df_len, df_last2, trend_direction,
                   bullish_signals, bearish_signals, confidence_score>>
    /\ UNCHANGED <<frameVars, textVars, runVars>>

NextPredict == PredictPrice

SpecPredict == InitPredict /\ [][NextPredict]_vars

BothBandsPresent(ind) == Get(ind, "bb_upper").k = "num" /\ Get(ind, "bb_lower").k = "num"

\* C2: whenever both Bollinger bounds are present in the indicator set, the
\* price _predict_price returns (rounded to 8 decimals) lies in
\* [bb_lower * 0.95, bb_upper * 1.05].
C2_WithinBollingerEnvelope ==
    (pc = "predicted" /\ BothBandsPresent(indicators)) =>
        /\ LowerCap(indicators.bb_lower.v) <= predicted_price * PctDen
        /\ predicted_price * PctDen <= UpperCap(indicators.bb_upper.v)

\* C10: whenever current_price is positive, the predicted_price returned by
\* _predict_price is positive.
C10_PredictedPositive ==
    (pc = "predicted" /\ indicators.current_price.v > 0) => predicted_price > 0


\* the multipliers in hundredths, as the specification lists them
ListedMultiplier(tf) ==
    CASE tf = "1h" -> 2 [] tf = "4h" -> 5 [] tf = "24h" -> 10
      [] tf = "7d" -> 20 [] tf = "30d" -> 40

\* m * (0.5 + (RSI - 30) / 80), m * (0.5 + (70 - RSI) / 80) for every RSI
\* that is present, m * 0.5 without one; a numerator over PctDen
ListedPct(ind, trend, tf) ==
    IF ind["rsi"].k # "num" THEN ListedMultiplier(tf) * RsiPts(40)
    ELSE IF trend = "bullish"
    THEN ListedMultiplier(tf) * (RsiPts(40) + ind["rsi"].v - RsiPts(30))
    ELSE ListedMultiplier(tf) * (RsiPts(40) + RsiPts(70) - ind["rsi"].v)

ListedDirectional(ind, trend, tf) ==
    IF trend = "bullish"
    THEN ind["current_price"].v * (PctDen + ListedPct(ind, trend, tf))
    ELSE ind["current_price"].v * (PctDen - ListedPct(ind, trend, tf))

BandsAbsent == indicators["bb_upper"] = None /\ indicators["bb_lower"] = None

\* C17: for a bullish or bearish trend the prediction before the Bollinger
\* clamp is current * (1 + pct) or current * (1 - pct), with the RSI skew in
\* pct for every RSI value that is present, 0 included, and pct = m * 0.5
\* only without an RSI; without bands the rounded value is what is returned.
C17_RsiSkewWheneverPresent ==
    (pc = "predicted" /\ trend_direction # "neutral") =>
        /\ PreClampPrice(indicators["current_price"].v, indicators,
                         trend_direction, timeframe)
             = ListedDirectional(indicators, trend_direction, timeframe)
        /\ BandsAbsent =>
              predicted_price =
                 RoundHalfEven(ListedDirectional(indicators, trend_direction,
                                                 timeframe), PctDen)

\* current * (1 + m * 0.1), a numerator over PctDen
ListedNeutral(ind, tf) ==
    ind["current_price"].v * (PctDen + ListedMultiplier(tf) * (PctDen \div 1000))

DirectionalPct ==
    IF trend_direction = "bullish" THEN BullishPct(indicators, timeframe)
    ELSE BearishPct(indicators, timeframe)

\* the multiplier m as a numerator over PctDen
ListedM == ListedMultiplier(timeframe) * (PctDen \div 100)

BearishAboveCurrent ==
    /\ pc = "predicted" /\ trend_direction = "bearish"
    /\ Truthy(indicators["bb_upper"]) /\ Truthy(indicators["bb_lower"])
    /\ predicted_price > indicators["current_price"].v

-----------------------------------------------------------------------------
(* SpecConfidence: _calculate_confidence applied to indicator mappings,     *)
(* trends, row counts and timeframes drawn from bounded sets.               *)

\* the keys of the mapping besides rsi, sma_20, sma_50 and current_price
OtherKeys == <<"sma_200", "ema_12", "ema_26", "macd", "macd_signal",
               "macd_histogram", "bb_upper", "bb_middle", "bb_lower",
               "avg_volume", "current_volume", "volume_ratio">>

\* a mapping whose first k other keys hold a number and the rest None
OtherIndicators(k) ==
    [key \in {OtherKeys[i] : i \in 1..Len(OtherKeys)} |->
        IF \E i \in 1..k : OtherKeys[i] = key THEN Num(1) ELSE None]

ConfidenceRsi ==
    {None} \cup {Num(RsiPts(x)) :
                    x \in {0, 25, 27, 30, 35, 40, 50, 60, 65, 70, 72, 75, 80}}

InitConfidence ==
    /\ pc = "input"
    /\ \E rsi \in ConfidenceRsi,
          sma_20 \in {None, Num(90), Num(110)},
          sma_50 \in {None, Num(90), Num(110)},
          k \in {0, 5, 6, 7, Len(OtherKeys)} :
            indicators = [rsi |-> rsi, sma_20 |-> sma_20, sma_50 |-> sma_50,
                          current_price |-> Num(100),
                          volume_trend |-> Str("normal")] @@ OtherIndicators(k)
    /\ trend_direction \in Trends
    /\ timeframe \in Timeframes
    /\ df_len \in {1, 50, 51, 100, 101}
    /\ df_last2 = << >>
    /\ NoFrame /\ NoScores /\ NoText /\ NoRun

CalculateConfidence ==
    /\ pc = "input"
    /\ confidence_score' = _calculate_confidence(indicators, trend_direction,
                                                 df_len, timeframe)
    /\ pc' = "scored"
    /\ UNCHANGED <<timeframe, indicators, df_len, df_last2, trend_direction,
                   bullish_signals, bearish_signals, predicted_price>>
    /\ UNCHANGED <<frameVars, textVars, runVars>>

NextConfidence == CalculateConfidence

SpecConfidence == InitConfidence /\ [][NextConfidence]_vars

\* C1: for every indicator mapping, trend label, data-point count and
\* timeframe, _calculate_confidence returns an integer in [0, 100].
C1_ConfidenceInRange ==
    pc = "scored" => (confidence_score \in Int /\ confidence_score \in 0..100)

\* every bonus at its maximum: the score reaches the upper end of the range
C1_Witness ==
    /\ pc = "scored"
    /\ IndicatorCount(indicators) * 2 > 20
    /\ trend_direction # "neutral"
    /\ confidence_score = 100


\* the terms of the reference formula, read off the state
ListedAdjustment ==
    CASE timeframe = "1h" -> 0 [] timeframe = "4h" -> 0 - 2
      [] timeframe = "24h" -> 0 - 5 [] timeframe = "7d" -> 0 - 15
      [] timeframe = "30d" -> 0 - 25

NumericCount ==
    Cardinality({key \in DOMAIN indicators : indicators[key].k = "num"})

RsiIn(lo, hi) ==
    /\ indicators["rsi"].k = "num"
    /\ RsiPts(lo) < indicators["rsi"].v /\ indicators["rsi"].v < RsiPts(hi)

ListedRsiBonus ==
    IF indicators["rsi"].k = "num"
       /\ (indicators["rsi"].v < RsiPts(25) \/ indicators["rsi"].v > RsiPts(75))
    THEN 10
    ELSE IF RsiIn(30, 40) \/ RsiIn(60, 70) THEN 5
    ELSE 0

StrictlyBetween(x, a, b) ==
    /\ x.k = "num" /\ a.k = "num" /\ b.k = "num"
    /\ (a.v < x.v /\ x.v < b.v) \/ (b.v < x.v /\ x.v < a.v)

ListedSum ==
    50 + ListedAdjustment
       + (IF 2 * NumericCount < 20 THEN 2 * NumericCount ELSE 20)
       + (IF trend_direction # "neutral" THEN 10 ELSE 0)
       + ListedRsiBonus
       + (IF df_len > 100 THEN 10 ELSE IF df_len > 50 THEN 5 ELSE 0)
       - (IF StrictlyBetween(indicators["current_price"], indicators["sma_20"],
                             indicators["sma_50"]) THEN 10 ELSE 0)

\* C19: _calculate_confidence equals the reference formula, clamped to
\* [0, 100], for every indicator mapping, trend, data-point count and
\* timeframe; an RSI in [25, 30] or [70, 75] earns no RSI bonus.
C19_MatchesReferenceFormula ==
    pc = "scored" =>
        /\ confidence_score =
              (IF ListedSum < 0 THEN 0 ELSE IF ListedSum > 100 THEN 100
               ELSE ListedSum)
        /\ (indicators["rsi"].k = "num"
            /\ indicators["rsi"].v \in (RsiPts(25)..RsiPts(30))
                                          \cup (RsiPts(70)..RsiPts(75)))
              => ListedRsiBonus = 0

\* an RSI of 27, in the gap below the moderate zone, on a conflicting
\* moving-average read: 50 - 5 + 2 * 4 + 10 + 0 + 5 - 10
C19_Witness ==
    /\ pc = "scored" /\ timeframe = "24h" /\ trend_direction = "bearish"
    /\ indicators["rsi"] = Num(RsiPts(27))
    /\ indicators["sma_20"] = Num(90) /\ indicators["sma_50"] = Num(110)
    /\ NumericCount = 4 /\ df_len = 51
    /\ confidence_score = 58

\* the bonuses of the sum: indicators, trend, RSI zone, data points
ListedBonuses ==
    (IF 2 * NumericCount < 20 THEN 2 * NumericCount ELSE 20)
      + (IF trend_direction # "neutral" THEN 10 ELSE 0)
      + ListedRsiBonus
      + (IF df_len > 100 THEN 10 ELSE IF df_len > 50 THEN 5 ELSE 0)

\* C26: the sum _calculate_confidence forms lies in [21, 100] before it is
\* clamped, so the clamp to [0, 100] returns it unchanged: the bonuses add up
\* to at most 50, and the conflict penalty of 10 is only taken with at least
\* three numeric indicators, that is with an indicator bonus of at least 6.
C26_ClampNeverChangesSum ==
    pc = "scored" =>
        /\ RawConfidence(indicators, trend_direction, df_len, timeframe) \in 21..100
        /\ confidence_score =
              RawConfidence(indicators, trend_direction, df_len, timeframe)
        /\ ListedSum \in 21..100
        /\ ListedBonuses <= 50
        /\ ConflictPenalty(indicators) > 0 => NumericCount >= 3

\* the lowest sum: 30d, neutral, three numeric indicators in conflict
C26_Witness ==
    /\ pc = "scored" /\ timeframe = "30d" /\ trend_direction = "neutral"
    /\ ConflictPenalty(indicators) = 10
    /\ NumericCount = 3 /\ ListedBonuses = 6
    /\ RawConfidence(indicators, trend_direction, df_len, timeframe) = 21
    /\ confidence_score = 21

-----------------------------------------------------------------------------
(* Market-data frames the specifications draw from.                         *)

AllCols == {"timestamp", "price_usd", "volume_24h"}

\* price of row i of n, in ticks
ShapePrice(shape, i, n) ==
    CASE shape = "flat" -> 1000
      [] shape = "up" -> 1000 + 50 * i
      [] shape = "down" -> 1000 + 50 * (n - i)
      [] shape = "zigzag" -> 1000 + 100 * (i % 2)
      [] shape = "zero_last" -> IF i = n THEN 0 ELSE 1000
      [] shape = "up_slowing" -> IF i <= n - 20 THEN 1000 + 50 * i
                                 ELSE 1000 + 50 * (n - 20) + (i - (n - 20))
      [] shape = "up_jump" -> IF i = n THEN 3000 + i ELSE 1000 + i
      [] shape = "down_slowing" -> IF i <= 5 THEN 1000 + 200 * (5 - i) + (n - 5)
                                   ELSE 1000 + (n - i)
      [] shape = "down_crash" -> IF i = n THEN 500 ELSE 1000 + (n - i)

\* volume_24h of row i of n; the column is nullable
ShapeVolume(vshape, i, n) ==
    CASE vshape = "flat" -> Num(10)
      [] vshape = "zero" -> Num(0)
      [] vshape = "spike" -> IF i = n THEN Num(40) ELSE Num(10)
      [] vshape = "dip" -> IF i = n THEN Num(1) ELSE Num(10)
      [] vshape = "null_last" -> IF i = n THEN NaN ELSE Num(10)

VolumeShapes == {"flat", "zero", "spike", "dip", "null_last"}

ShapePrices(shape, n) == [i \in 1..n |-> ShapePrice(shape, i, n)]

\* rows one hour apart, the last one `lag` hours before now = 0
MakeFrame(prices, vshape, lag, cols) ==
    [cols |-> cols,
     rows |-> [i \in 1..Len(prices) |->
                 [timestamp |-> -(lag + Len(prices) - i),
                  price_usd |-> prices[i],
                  volume_24h |-> ShapeVolume(vshape, i, Len(prices))]]]

-----------------------------------------------------------------------------
(* SpecIndicators: the indicator engine applied to price / volume series.   *)

\* longest exhaustively enumerated price series, and its price levels
MaxLen == 4
MaxLevel == 3
\* largest period of the single-indicator calls on the enumerated series
MaxPeriod == 3
\* longest generated series
MaxRows == 52

PriceSeqs == UNION {[1..n -> 1..MaxLevel] : n \in 0..MaxLen}

SeriesLengths == {13, 14, 15, 19, 20, 21, 49, 50, 51, MaxRows}

EngineFrames ==
    {MakeFrame(p, "flat", 0, AllCols) : p \in PriceSeqs}
      \cup {MakeFrame(ShapePrices(sh, n), "flat", 0, AllCols) :
               sh \in {"flat", "up", "down", "zigzag"}, n \in SeriesLengths}
      \cup {MakeFrame(ShapePrices(sh, n), vs, 0, AllCols) :
               sh \in {"flat", "up"}, n \in {3, 15}, vs \in VolumeShapes}
      \cup {MakeFrame(ShapePrices("up", n), "flat", 0, {"timestamp", "price_usd"}) :
               n \in {0, 15}}
      \cup {MakeFrame(ShapePrices("up", 15), "flat", 0, {"timestamp", "volume_24h"})}

InitIndicators ==
    /\ pc = "input"
    /\ market_data \in EngineFrames
    /\ ind_period \in (1..MaxPeriod) \cup {14, 20}
    /\ now = 0
    /\ timeframe = "24h"
    /\ indicators = << >>
    /\ df_len = 0 /\ df_last2 = << >>
    /\ trend_direction = "neutral"
    /\ NoScores /\ NoText /\ NoRun

\* one call each of calculate_rsi, calculate_sma and calculate_ema with the
\* same period; the mapping holds the latest value of each returned series
CalculateOne ==
    /\ pc = "input"
    /\ Len(market_data.rows) > 0
    /\ indicators' = [rsi |-> calculate_rsi(PriceCol(market_data), ind_period),
                      sma |-> calculate_sma(PriceCol(market_data), ind_period),
                      ema |-> calculate_ema(PriceCol(market_data), ind_period)]
    /\ pc' = "one_done"
    /\ UNCHANGED <<timeframe, df_len, df_last2, trend_direction>>
    /\ UNCHANGED <<frameVars, scoreVars, textVars, runVars>>

CalculateAll ==
    /\ pc = "input"
    /\ indicators' = calculate_all_indicators(market_data)
    /\ pc' = "all_done"
    /\ UNCHANGED <<timeframe, df_len, df_last2, trend_direction>>
    /\ UNCHANGED <<frameVars, scoreVars, textVars, runVars>>

NextIndicators == CalculateOne \/ CalculateAll

SpecIndicators == InitIndicators /\ [][NextIndicators]_vars

Rows == Len(market_data.rows)

\* the keys calculate_all_indicators computes with a period
RsiKeys == {<<"rsi", 14>>}
SmaKeys == {<<"sma_20", 20>>, <<"sma_50", 50>>, <<"sma_200", 200>>}
EmaKeys == {<<"ema_12", 12>>, <<"ema_26", 26>>}

AllDone == pc = "all_done" /\ DOMAIN indicators # {}

ZeroAvgLoss == Rows >= 15 /\ LossSum(PriceCol(market_data), 14) = 0
ZeroAvgVolume ==
    "volume_24h" \in market_data.cols /\ VolumeMean(VolumeCol(market_data)) = Num(0)
\* C9 as stated: zero average loss makes the RSI 100, zero average volume
\* makes the volume ratio 1.0, and no NaN is placed in the indicator set.
C9_DivideByZeroSentinels ==
    AllDone =>
        /\ ZeroAvgLoss => indicators.rsi = Num(RsiPts(100))
        /\ ZeroAvgVolume => indicators.volume_ratio = Num(100)
        /\ \A key \in DOMAIN indicators : indicators[key].k # "nan"

\* the last `period` price changes of the series
LastDeltas(period) ==
    LET p == PriceCol(market_data)
    IN  [j \in 1..period |-> p[Rows - period + j] - p[Rows - period + j - 1]]

\* period x avg_gain and period x avg_loss: the positive changes, and the
\* negative changes negated, summed over the last `period` changes
ListedGainSum(period) ==
    LET d == LastDeltas(period)
    IN  SumFromTo([j \in 1..period |-> IF d[j] > 0 THEN d[j] ELSE 0], 1, period)

ListedLossSum(period) ==
    LET d == LastDeltas(period)
    IN  SumFromTo([j \in 1..period |-> IF d[j] < 0 THEN 0 - d[j] ELSE 0], 1, period)

\* x is what 100 - 100 / (1 + avg_gain / avg_loss) comes to: undefined when
\* both averages are 0, 100 when only avg_loss is, and otherwise the
\* tenth of a point at 1000 * gain / (gain + loss), within [0, 100]
IsListedRsi(x, undefined, period) ==
    LET g == ListedGainSum(period)
        l == ListedLossSum(period)
    IN  IF l = 0 /\ g = 0 THEN x = undefined
        ELSE IF l = 0 THEN x = Num(RsiPts(100))
        ELSE /\ x.k = "num"
             /\ x.v * (g + l) <= RsiPts(100) * g
             /\ RsiPts(100) * g < (x.v + 1) * (g + l)
             /\ 0 <= x.v /\ x.v <= RsiPts(100)

\* C22: with at least period + 1 prices the latest RSI is
\* 100 - 100 / (1 + avg_gain / avg_loss) over the last `period` price changes:
\* 100 when avg_loss = 0 < avg_gain, undefined when both are 0, and within
\* [0, 100] otherwise; calculate_all_indicators reports the 14-period value.
C22_RsiFormula ==
    /\ (pc = "one_done" /\ Rows >= ind_period + 1) =>
          IsListedRsi(indicators.rsi, NaN, ind_period)
    /\ (AllDone /\ Rows >= 15) => IsListedRsi(indicators.rsi, None, 14)

\* two prices up and one down within the last three changes: RSI 66.6
C22_Witness ==
    /\ pc = "one_done"
    /\ ind_period = 3 /\ Rows = 4
    /\ ListedGainSum(3) = 2 /\ ListedLossSum(3) = 1
    /\ indicators.rsi = Num(666)

-----------------------------------------------------------------------------
(* SpecEnhance: enhance_reasoning against every answer of the model server. *)

Statuses == {200, 201, 404, 500}
Bodies == {"Momentum is building.", "not json", "not an object", "no choices",
           "empty content", "null content"}
WellFormed(body) ==
    body \notin {"not json", "not an object", "no choices", "empty content",
                 "null content"}

Responses ==
    {[kind |-> k, status |-> 0, body |-> ""] : k \in {"timeout", "unreachable"}}
      \cup {[kind |-> "http", status |-> st, body |-> b] :
               st \in Statuses, b \in Bodies}

EnhanceIndicators ==
    {[current_price |-> Num(1000), rsi |-> Num(RsiPts(50)),
      macd |-> Num(1), macd_signal |-> Num(2)],
     [current_price |-> Num(1000), rsi |-> None,
      macd |-> Num(1), macd_signal |-> None],
     [current_price |-> Num(0), rsi |-> Num(RsiPts(50)),
      macd |-> None, macd_signal |-> None]}

BasicTexts ==
    {<<Part("Analysis for", "1 hour", 0, 0)>>,
     <<Part("Analysis for", "24 hours", 0, 0), Part("Trend", "bullish", 0, 0)>>}

InitEnhance ==
    /\ pc = "input"
    /\ enabled \in BOOLEAN
    /\ response \in Responses
    /\ indicators \in EnhanceIndicators
    /\ basic_reasoning \in BasicTexts
    /\ reasoning = << >>
    /\ raised = FALSE
    /\ timeframe = "24h"
    /\ df_len = 0 /\ df_last2 = << >>
    /\ trend_direction = "neutral"
    /\ NoFrame /\ NoScores /\ NoRun

EnhanceReasoning ==
    /\ pc = "input"
    /\ LET r == enhance_reasoning(enabled, response, indicators,
                                  indicators["current_price"].v, basic_reasoning)
       IN  /\ reasoning' = r.text
           /\ raised' = r.raised
    /\ pc' = "enhanced"
    /\ UNCHANGED <<timeframe, indicators, df_len, df_last2, trend_direction,
                   basic_reasoning, enabled, response>>
    /\ UNCHANGED <<frameVars, scoreVars, runVars>>

NextEnhance == EnhanceReasoning

SpecEnhance == InitEnhance /\ [][NextEnhance]_vars

\* the situations in which the enhancer has nothing usable to offer
EnhancerUnavailable ==
    \/ ~enabled
    \/ response.kind \in {"timeout", "unreachable"}
    \/ response.status # 200
    \/ ~WellFormed(response.body)
    \/ PromptRaises(indicators, indicators["current_price"].v)

\* C5: enhance_reasoning never raises, and when the enhancer is disabled,
\* unreachable, timed out, answered with a non-200 status or with malformed or
\* empty content, or failed while building its prompt, the text returned is
\* exactly the basic reasoning.
C5_DegradesToBasic ==
    pc = "enhanced" =>
        /\ ~raised
        /\ EnhancerUnavailable => reasoning = basic_reasoning

-----------------------------------------------------------------------------
(* SpecAnalyze: one call of analyze_timeframe.                              *)

AnalyzeFrames ==
    {MakeFrame(ShapePrices(sh, n), "flat", lag, AllCols) :
        sh \in {"flat", "up", "down", "zigzag"}, n \in {1, 2, 30, MaxRows},
        lag \in {0, 100}}
      \cup {MakeFrame(ShapePrices("up", 30), vs, 0, AllCols) : vs \in VolumeShapes}
      \cup {MakeFrame(ShapePrices("up", n), "flat", 0, AllCols) : n \in {0}}
      \cup {MakeFrame(ShapePrices("up", n), "flat", 0, {}) : n \in {0}}
      \cup {MakeFrame(ShapePrices("up", 30), "flat", 0, cols) :
               cols \in {{"timestamp", "volume_24h"}, {"volume_24h"},
                         {"price_usd", "volume_24h"}}}

InitAnalyze ==
    /\ pc = "input"
    /\ market_data \in AnalyzeFrames
    /\ timeframe \in Timeframes
    /\ enabled \in BOOLEAN
    /\ now = 0
    /\ ind_period = 0
    /\ indicators = << >>
    /\ df_len = 0 /\ df_last2 = << >>
    /\ trend_direction = "neutral"
    /\ basic_reasoning = << >> /\ reasoning = << >>
    /\ response = NoResponse /\ raised = FALSE
    /\ NoScores /\ NoRun

AnalyzeTimeframe ==
    /\ pc = "input"
    /\ \E scores \in {AnalyzeScores(market_data, timeframe, now)},
          resp \in Responses :
         \E r \in {EnhanceScores(scores, enabled, resp)} :
             /\ response' = resp
             /\ raised' = r.raised
             /\ predicted_price' = r.predicted_price
             /\ confidence_score' = r.confidence_score
             /\ trend_direction' = r.trend_direction
             /\ indicators' = r.indicators
             /\ reasoning' = r.reasoning
             /\ basic_reasoning' = r.basic_reasoning
             /\ df_len' = r.df_len
             /\ df_last2' = r.df_last2
             /\ bullish_signals' = r.votes[1]
             /\ bearish_signals' = r.votes[2]
    /\ pc' = "analyzed"
    /\ UNCHANGED <<timeframe, enabled>>
    /\ UNCHANGED <<frameVars, runVars>>

NextAnalyze == AnalyzeTimeframe

SpecAnalyze == InitAnalyze /\ [][NextAnalyze]_vars

NoUsablePrice == Empty(market_data) \/ "price_usd" \notin market_data.cols

\* the texts of the two insufficient-data returns
SentinelTexts ==
    {<<Part("No data available", "", 0, 0)>>,
     <<Part("Insufficient data for analysis", "", 0, 0)>>}

\* C3: on an empty series, or a series without a price field, analyze_timeframe
\* does not raise and returns predicted_price 0, confidence 0, trend neutral,
\* an empty indicator set and one of the explanatory texts.
C3_InsufficientDataResult ==
    (pc = "analyzed" /\ NoUsablePrice) =>
        /\ ~raised
        /\ predicted_price = 0
        /\ confidence_score = 0
        /\ trend_direction = "neutral"
        /\ DOMAIN indicators = {}
        /\ reasoning \in SentinelTexts

\* a non-empty frame that lacks the price column
C3_Witness ==
    /\ pc = "analyzed"
    /\ Rows > 0
    /\ "price_usd" \notin market_data.cols
    /\ reasoning = <<Part("Insufficient data for analysis", "", 0, 0)>>
    /\ ~raised

IsPrefix(a, b) == Len(a) <= Len(b) /\ SubSeq(b, 1, Len(a)) = a

\* C6: a non-sentinel result's reasoning begins with the text
\* _generate_reasoning composes for the returned values, and anything else in
\* it comes after that prefix.
C6_CanonicalPrefix ==
    (pc = "analyzed" /\ ~raised /\ DOMAIN indicators # {}) =>
        /\ basic_reasoning =
              _generate_reasoning(indicators, trend_direction, predicted_price,
                                  indicators["current_price"].v, timeframe)
        /\ Len(basic_reasoning) > 0
        /\ IsPrefix(basic_reasoning, reasoning)

\* the enhancer's text was appended
C6_Witness ==
    /\ pc = "analyzed"
    /\ ~raised
    /\ DOMAIN indicators # {}
    /\ Len(reasoning) > Len(basic_reasoning)
    /\ IsPrefix(basic_reasoning, reasoning)
    /\ reasoning[Len(basic_reasoning) + 1] = EnhancedMarker

\* the series is in ascending order of timestamp
AscendingSeries ==
    /\ "timestamp" \in market_data.cols
    /\ \A i \in 2..Len(market_data.rows) :
          market_data.rows[i - 1].timestamp <= market_data.rows[i].timestamp

ListedHours ==
    CASE timeframe = "1h" -> 1
      [] timeframe = "4h" -> 4
      [] timeframe = "24h" -> 24
      [] timeframe = "7d" -> 168
      [] timeframe = "30d" -> 720

\* number of leading points older than now - 2 x hours(timeframe)
OlderPoints ==
    Cardinality({i \in 1..Len(market_data.rows) :
                    market_data.rows[i].timestamp < now - 2 * ListedHours})

\* the suffix of recent points, or the last 50 points when there is none
ListedSlice ==
    LET n == Len(market_data.rows)
    IN  IF OlderPoints < n THEN SubSeq(market_data.rows, OlderPoints + 1, n)
        ELSE IF n < 50 THEN market_data.rows
        ELSE SubSeq(market_data.rows, n - 49, n)

\* C21: on a non-empty series in ascending order of time, the slice
\* analyze_timeframe computes on is the suffix of points not older than
\* now - 2 x hours(timeframe); when that suffix is empty it is the last 50
\* points, or every point of a shorter series; it is never empty.
C21_SliceIsRecentSuffix ==
    (pc = "analyzed" /\ AscendingSeries /\ Len(market_data.rows) > 0) =>
        /\ TimeframeSlice(market_data, timeframe, now).rows = ListedSlice
        /\ Len(ListedSlice) > 0
        /\ (~raised /\ DOMAIN indicators # {}) =>
              /\ df_len = Len(ListedSlice)
              /\ df_len >= 2 =>
                    df_last2 = <<ListedSlice[df_len - 1].price_usd,
                                 ListedSlice[df_len].price_usd>>

\* every point is too old, and the last 50 of more than 50 were analysed
C21_Witness ==
    /\ pc = "analyzed" /\ ~raised
    /\ AscendingSeries
    /\ Len(market_data.rows) > 50
    /\ OlderPoints = Len(market_data.rows)
    /\ df_len = 50
    /\ df_last2[2] = market_data.rows[Len(market_data.rows)].price_usd

-----------------------------------------------------------------------------
(* Spec: PricePredictor.run_analysis, one run over the five timeframes.     *)
(* The database is the frame get_market_data returns and the rows           *)
(* save_analysis_result commits; each database call may fail.               *)

TimeframeList == <<"1h", "4h", "24h", "7d", "30d">>

\* rows of the frames a run is given
RunRows == 16

RunFrames ==
    {MakeFrame(ShapePrices(sh, RunRows), "flat", 0, AllCols) :
        sh \in {"up", "down", "zero_last"}}
      \cup {MakeFrame(ShapePrices("up", 3), "flat", 100, AllCols),
            MakeFrame(ShapePrices("up", 0), "flat", 0, AllCols)}

RunResponses ==
    {[kind |-> "timeout", status |-> 0, body |-> ""],
     [kind |-> "http", status |-> 200, body |-> "Momentum is building."]}

\* the row save_analysis_result inserts for a result
ResultRow(tf, r) ==
    [timeframe |-> tf,
     predicted_price |-> r.predicted_price,
     confidence_score |-> r.confidence_score,
     trend_direction |-> r.trend_direction,
     technical_indicators |-> r.indicators,
     reasoning |-> r.reasoning]

\* a loop that stops at the first timeframe that fails
AfterFailure_Break(i) == Len(TimeframeList) + 1

\* except Exception: log and `continue` with the next timeframe
AfterFailure(i) == i + 1

Init ==
    /\ pc = "idle"
    /\ table \in RunFrames
    /\ market_data = EmptyFrame
    /\ enabled \in BOOLEAN
    /\ now = 0
    /\ ind_period = 0
    /\ timeframe = "1h"
    /\ indicators = << >>
    /\ df_len = 0 /\ df_last2 = << >>
    /\ trend_direction = "neutral"
    /\ basic_reasoning = << >> /\ reasoning = << >>
    /\ response = NoResponse /\ raised = FALSE
    /\ NoScores
    /\ tf_index = 0 /\ status = "idle" /\ saved = << >> /\ failed = {}
    /\ status_updates = << >> /\ fetch_outcome = "none"
    /\ fetches = 0 /\ handed = << >>
    /\ NoCollector

analysisVars == <<timeframe, indicators, df_len, df_last2, trend_direction,
                  bullish_signals, bearish_signals, predicted_price,
                  confidence_score, basic_reasoning, reasoning, response>>

\* update_script_status: the UPDATE is committed, or the call raises and
\* the row keeps its value; either way the call is on record
UpdateStatus(run, value, db_ok) ==
    [status |-> IF db_ok THEN value ELSE run.status,
     status_updates |-> Append(run.status_updates,
                               [status |-> value, ok |-> db_ok])]

\* a handler that re-raises without recording the failure
ExceptHandler_Silent(run, handler_ok) == run

\* the outer `except Exception`: update_script_status('error', ...), then
\* raise; when that update raises too, its exception is what propagates
ExceptHandler(run, handler_ok) == UpdateStatus(run, "error", handler_ok)

\* a status update whose exception bypasses the handler
TryUpdateStatus_Unhandled(run, value, db_ok, handler_ok) ==
    UpdateStatus(run, value, db_ok)

\* a status update made inside the outer try: when it raises, the handler runs
TryUpdateStatus(run, value, db_ok, handler_ok) ==
    IF db_ok THEN UpdateStatus(run, value, TRUE)
    ELSE ExceptHandler(UpdateStatus(run, value, FALSE), handler_ok)

RunStatus == [status |-> status, status_updates |-> status_updates]

\* update_script_status('running', ...), the first statement of the try
StartRun ==
    /\ pc = "idle"
    /\ \E db_ok \in BOOLEAN, handler_ok \in BOOLEAN :
         \E run \in {TryUpdateStatus(RunStatus, "running", db_ok, handler_ok)} :
             /\ status' = run.status
             /\ status_updates' = run.status_updates
             /\ pc' = IF db_ok THEN "fetch" ELSE "done"
             /\ raised' = ~db_ok
    /\ UNCHANGED <<frameVars, analysisVars, enabled, tf_index, saved, failed,
                   table, fetches, fetch_outcome, handed, collectorVars>>

\* get_market_data(hours=800) and the empty check; df is the table as it is
\* at this moment.  An empty frame ends the run with status 'error' and a
\* plain return; an exception of get_market_data goes to the outer handler
FetchMarketData ==
    /\ pc = "fetch"
    /\ fetches' = fetches + 1
    /\ \E fetch_ok \in BOOLEAN, db_ok \in BOOLEAN, handler_ok \in BOOLEAN :
         IF ~fetch_ok
         THEN \E run \in {ExceptHandler(RunStatus, handler_ok)} :
                  /\ status' = run.status
                  /\ status_updates' = run.status_updates
                  /\ pc' = "done" /\ raised' = TRUE
                  /\ fetch_outcome' = "raised"
                  /\ UNCHANGED <<tf_index, market_data>>
         ELSE IF Empty(table)
         THEN \E run \in {TryUpdateStatus(RunStatus, "error", db_ok, handler_ok)} :
                  /\ status' = run.status
                  /\ status_updates' = run.status_updates
                  /\ pc' = "done" /\ raised' = ~db_ok
                  /\ fetch_outcome' = "empty"
                  /\ market_data' = table
                  /\ UNCHANGED tf_index
         ELSE /\ pc' = "analyze" /\ tf_index' = 1
              /\ fetch_outcome' = "rows"
              /\ market_data' = table
              /\ UNCHANGED <<raised, status, status_updates>>
    /\ UNCHANGED <<now, ind_period, analysisVars, enabled, saved, failed,
                   table, handed, collectorVars>>

\* the frame the loop passes to analyze_timeframe: the local df
LoopInput_Requery(df, tbl) == tbl

LoopInput(df, tbl) == df

\* one iteration of the loop: analyze_timeframe, then save_analysis_result
AnalyzeAndSave ==
    /\ pc = "analyze"
    /\ \E scores \in {AnalyzeScores(LoopInput(market_data, table),
                                    TimeframeList[tf_index], now)},
          resp \in RunResponses, save_ok \in BOOLEAN :
         \E r \in {EnhanceScores(scores, enabled, resp)} :
             /\ timeframe' = TimeframeList[tf_index]
             /\ response' = resp
             /\ predicted_price' = r.predicted_price
             /\ confidence_score' = r.confidence_score
             /\ trend_direction' = r.trend_direction
             /\ indicators' = r.indicators
             /\ reasoning' = r.reasoning
             /\ basic_reasoning' = r.basic_reasoning
             /\ df_len' = r.df_len
             /\ df_last2' = r.df_last2
             /\ bullish_signals' = r.votes[1]
             /\ bearish_signals' = r.votes[2]
             /\ handed' = IF r.raised THEN handed
                          ELSE Append(handed, TimeframeList[tf_index])
             /\ IF r.raised \/ ~save_ok
                THEN /\ failed' = failed \cup {TimeframeList[tf_index]}
                     /\ saved' = saved
                     /\ tf_index' = AfterFailure(tf_index)
                ELSE /\ saved' = Append(saved, ResultRow(TimeframeList[tf_index], r))
                     /\ failed' = failed
                     /\ tf_index' = tf_index + 1
    /\ pc' = IF tf_index' > Len(TimeframeList) THEN "finish" ELSE "analyze"
    /\ UNCHANGED <<frameVars, enabled, raised, status, status_updates, table,
                   fetches, fetch_outcome,
                   collectorVars>>

\* a final status that reports a run in which every timeframe failed
FinalStatus_ErrorWhenAllFailed(failed_timeframes) ==
    IF failed_timeframes = {TimeframeList[i] : i \in 1..Len(TimeframeList)}
    THEN "error" ELSE "success"

\* the status written after the loop, whatever the loop logged
FinalStatus(failed_timeframes) == "success"

\* update_script_status('success', ...) after the loop
FinishRun ==
    /\ pc = "finish"
    /\ \E db_ok \in BOOLEAN, handler_ok \in BOOLEAN :
         \E run \in {TryUpdateStatus(RunStatus, FinalStatus(failed), db_ok, handler_ok)} :
             /\ status' = run.status
             /\ status_updates' = run.status_updates
             /\ raised' = ~db_ok
    /\ pc' = "done"
    /\ UNCHANGED <<frameVars, analysisVars, enabled, tf_index, saved, failed,
                   table, fetches, fetch_outcome, handed, collectorVars>>

\* rows the collector may add to the table while a run is in progress
MaxInserts == 1

\* price of a row the collector adds: above every price of the frames
InsertedPrice == 5 * ShapePrice("flat", 1, 1)

Inserted(tbl) ==
    Cardinality({i \in 1..Len(tbl.rows) : tbl.rows[i].price_usd = InsertedPrice})

\* the collector commits a new market_data row during the run
CollectorInsert ==
    /\ pc = "analyze"
    /\ Inserted(table) < MaxInserts
    /\ table' = [cols |-> AllCols,
                 rows |-> Append(table.rows,
                                 [timestamp |-> now, price_usd |-> InsertedPrice,
                                  volume_24h |-> Num(10)])]
    /\ UNCHANGED <<pc, frameVars, analysisVars, enabled, raised, tf_index,
                   status, status_updates, saved, failed, fetches, fetch_outcome, handed,
                   collectorVars>>

Next ==
    StartRun \/ FetchMarketData \/ AnalyzeAndSave \/ FinishRun \/ CollectorInsert

Spec == Init /\ [][Next]_vars

SavedTimeframes == {saved[i].timeframe : i \in 1..Len(saved)}

\* the timeframes the loop has gone past
Visited == {TimeframeList[i] : i \in 1..Min2(tf_index - 1, Len(TimeframeList))}

\* C4: a timeframe whose analysis or save raised is skipped alone: the loop
\* goes on, every timeframe it has passed is either logged as failed or saved
\* once, in order; a saved row is the result analyze_timeframe gives for that
\* timeframe whatever happened to the others; and after the loop all five
\* timeframes are accounted for.
C4_FailureIsolated ==
    /\ pc = "analyze" => tf_index \in 1..Len(TimeframeList)
    /\ pc = "finish" => tf_index = Len(TimeframeList) + 1
    /\ (pc = "done" /\ status = "success") => tf_index = Len(TimeframeList) + 1
    /\ pc \in {"analyze", "finish", "done"} =>
          /\ SavedTimeframes \cup failed = Visited
          /\ SavedTimeframes \cap failed = {}
          /\ \A i, j \in 1..Len(saved) :
                i < j => \E m, n \in 1..Len(TimeframeList) :
                            /\ m < n
                            /\ saved[i].timeframe = TimeframeList[m]
                            /\ saved[j].timeframe = TimeframeList[n]
          /\ \A i \in 1..Len(saved) :
                \E scores \in {AnalyzeScores(market_data, saved[i].timeframe, now)},
                   resp \in RunResponses :
                    saved[i] = ResultRow(saved[i].timeframe,
                                         EnhanceScores(scores, enabled, resp))

\* a completed run in which a failed timeframe is followed by a saved one
C4_Witness ==
    /\ pc = "done"
    /\ status = "success"
    /\ \E m, n \in 1..Len(TimeframeList) :
          /\ m < n
          /\ TimeframeList[m] \in failed
          /\ TimeframeList[n] \in SavedTimeframes

HandedTimeframes == {handed[i] : i \in 1..Len(handed)}

\* position of a timeframe in the loop's list
TimeframePosition(tf) == CHOOSE m \in 1..Len(TimeframeList) : TimeframeList[m] = tf

InOrder(seq) ==
    \A i, j \in 1..Len(seq) :
        i < j => TimeframePosition(seq[i]) < TimeframePosition(seq[j])

StatusWritesSucceeded == \A i \in 1..Len(status_updates) : status_updates[i].ok

LastStatusWritten == status_updates[Len(status_updates)].status

\* C23: a run writes status 'running' before it reads market data or saves
\* a result, keeps that status while it does so, and when it has terminated,
\* by returning or by raising, the last status written is 'success' or 'error'
\* and not 'running', provided the status writes succeed.
C23_RunningFirstTerminalLast ==
    /\ pc = "idle" => (status_updates = << >> /\ fetches = 0 /\ saved = << >>)
    /\ (fetches > 0 \/ Len(saved) > 0 \/ Len(handed) > 0) =>
          status_updates[1] = [status |-> "running", ok |-> TRUE]
    /\ pc \in {"fetch", "analyze", "finish"} =>
          (status = "running" /\ LastStatusWritten = "running")
    /\ (pc = "done" /\ StatusWritesSucceeded) =>
          /\ LastStatusWritten \in {"success", "error"}
          /\ status = LastStatusWritten

\* get_market_data raised, 'error' was written and the run raised
C23_Witness ==
    /\ pc = "done" /\ raised
    /\ fetch_outcome = "raised"
    /\ status_updates = <<[status |-> "running", ok |-> TRUE],
                          [status |-> "error", ok |-> TRUE]>>
    /\ status = "error"

\* C24 as stated: with a non-empty series fetched, the run ends with status
\* 'success' and returns normally, however many timeframes failed.
C24_AlwaysSuccess ==
    (pc = "done" /\ fetch_outcome = "rows") => (status = "success" /\ ~raised)

\* C24 amended: with a non-empty series fetched, all five timeframes are gone
\* through and 'success' is then written whatever they did; the run ends with
\* status 'success' and returns normally when that write is committed, and
\* raises, with status 'error' or still 'running', when it is not.
C24_SuccessIfStatusWritten ==
    (pc = "done" /\ fetch_outcome = "rows") =>
        /\ SavedTimeframes \cup failed =
              {TimeframeList[i] : i \in 1..Len(TimeframeList)}
        /\ Len(status_updates) >= 2
        /\ status_updates[2].status = "success"
        /\ status_updates[2].ok =>
              (status = "success" /\ ~raised /\ Len(status_updates) = 2)
        /\ ~status_updates[2].ok =>
              /\ raised
              /\ Len(status_updates) = 3
              /\ status_updates[3].status = "error"
              /\ status = IF status_updates[3].ok THEN "error" ELSE "running"

\* all five timeframes failed, nothing was saved, and the run succeeded
C24_Witness ==
    /\ pc = "done" /\ ~raised
    /\ fetch_outcome = "rows"
    /\ Cardinality(failed) = Len(TimeframeList)
    /\ saved = << >>
    /\ status = "success"

\* C25 as stated: an empty series makes the run write 'error', analyse and
\* save nothing and return without raising; an exception of get_market_data
\* makes it write 'error', save nothing and raise.
C25_EmptyOrFailedFetch ==
    /\ (pc = "done" /\ fetch_outcome = "empty") =>
          /\ status = "error" /\ ~raised
          /\ tf_index = 0 /\ handed = << >> /\ saved = << >>
    /\ (pc = "done" /\ fetch_outcome = "raised") =>
          /\ status = "error" /\ raised
          /\ tf_index = 0 /\ handed = << >> /\ saved = << >>

\* C25 amended: in both cases no timeframe is analysed, nothing is saved and
\* a write of 'error' is attempted; status is 'error' when a write of 'error'
\* is committed and stays 'running' otherwise; on an empty series the run
\* returns without raising exactly when its first write of 'error' is
\* committed, and after an exception of get_market_data it always raises.
C25_ErrorAttempted ==
    (pc = "done" /\ fetch_outcome \in {"empty", "raised"}) =>
        /\ tf_index = 0 /\ handed = << >> /\ saved = << >>
        /\ Len(status_updates) >= 2
        /\ \A i \in 2..Len(status_updates) : status_updates[i].status = "error"
        /\ status = IF \E i \in 2..Len(status_updates) : status_updates[i].ok
                    THEN "error" ELSE "running"
        /\ fetch_outcome = "empty" => (raised <=> ~status_updates[2].ok)
        /\ fetch_outcome = "empty" =>
              Len(status_updates) = IF status_updates[2].ok THEN 2 ELSE 3
        /\ fetch_outcome = "raised" => (raised /\ Len(status_updates) = 2)

\* an empty series: 'error' written once, plain return
C25_Witness ==
    /\ pc = "done" /\ ~raised
    /\ fetch_outcome = "empty"
    /\ Empty(market_data)
    /\ status_updates = <<[status |-> "running", ok |-> TRUE],
                          [status |-> "error", ok |-> TRUE]>>
    /\ status = "error"
    /\ tf_index = 0 /\ saved = << >>

-----------------------------------------------------------------------------
(* SpecRepeat: analyze_timeframe executed repeatedly on one frame with the  *)
(* enhancer disabled, while the wall clock (datetime.utcnow()) moves on.    *)

\* number of executions, and hours the clock may advance in all
MaxRuns == 2
MaxNow == 3

RepeatFrames ==
    {MakeFrame(ShapePrices(sh, n), "flat", lag, AllCols) :
        sh \in {"flat", "up", "down", "zigzag"}, n \in {2, 30}, lag \in {0, 100}}
      \cup {MakeFrame(ShapePrices("up", 30), "flat", 0, {"price_usd", "volume_24h"}),
            MakeFrame(ShapePrices("up", 0), "flat", 0, AllCols)}

InitRepeat ==
    /\ pc = "input"
    /\ market_data \in RepeatFrames
    /\ timeframe \in Timeframes
    /\ enabled = FALSE
    /\ now = 0
    /\ ind_period = 0
    /\ indicators = << >>
    /\ df_len = 0 /\ df_last2 = << >>
    /\ trend_direction = "neutral"
    /\ basic_reasoning = << >> /\ reasoning = << >>
    /\ response = NoResponse /\ raised = FALSE
    /\ NoScores /\ NoRun

\* one execution; the returned tuple is kept in `saved` for comparison
AnalyzeOnce ==
    /\ Len(saved) < MaxRuns
    /\ \E r \in {analyze_timeframe(market_data, timeframe, now, enabled, NoResponse)} :
         /\ raised' = r.raised
         /\ predicted_price' = r.predicted_price
         /\ confidence_score' = r.confidence_score
         /\ trend_direction' = r.trend_direction
         /\ indicators' = r.indicators
         /\ reasoning' = r.reasoning
         /\ basic_reasoning' = r.basic_reasoning
         /\ df_len' = r.df_len
         /\ df_last2' = r.df_last2
         /\ bullish_signals' = r.votes[1]
         /\ bearish_signals' = r.votes[2]
         /\ saved' = Append(saved, ResultRow(timeframe, r))
    /\ pc' = "analyzed"
    /\ UNCHANGED <<frameVars, timeframe, enabled, response, tf_index, status,
                   status_updates, failed,
                   table, fetches, fetch_outcome, handed, collectorVars>>

\* an hour passes between two executions
ClockAdvance ==
    /\ now < MaxNow
    /\ now' = now + 1
    /\ UNCHANGED <<market_data, ind_period, analysisVars, enabled, raised, pc>>
    /\ UNCHANGED runVars

NextRepeat == AnalyzeOnce \/ ClockAdvance

SpecRepeat == InitRepeat /\ [][NextRepeat]_vars

\* C11: two executions of analyze_timeframe on the same series and timeframe,
\* enhancer excluded, return the same predicted_price, confidence_score,
\* trend_direction, indicator set and reasoning, whenever they are executed.
C11_Deterministic ==
    \A i, j \in 1..Len(saved) : saved[i] = saved[j]


-----------------------------------------------------------------------------
(* SpecSeries: analyze_timeframe on the series shapes of the worked         *)
(* examples: constant, strictly increasing and strictly decreasing prices.  *)

\* rows five minutes apart (12 per hour, the collection interval
\* analyze_timeframe assumes), the last one at now = 0
DenseFrame(prices, vshape) ==
    [cols |-> AllCols,
     rows |-> [i \in 1..Len(prices) |->
                 [timestamp |-> -((Len(prices) - i) \div 12),
                  price_usd |-> prices[i],
                  volume_24h |-> ShapeVolume(vshape, i, Len(prices))]]]

SeriesFrames ==
    {DenseFrame([i \in 1..60 |-> level], vs) :
        level \in {1000, 4000}, vs \in {"flat", "zero", "spike"}}
      \cup {DenseFrame(ShapePrices(sh, 250), "flat") :
               sh \in {"up", "up_slowing", "up_jump"}}
      \cup {DenseFrame(ShapePrices(sh, 20), vs) :
               sh \in {"down", "down_slowing", "down_crash"},
               vs \in {"flat", "spike"}}

InitSeries ==
    /\ pc = "input"
    /\ market_data \in SeriesFrames
    /\ timeframe \in Timeframes
    /\ enabled \in BOOLEAN
    /\ now = 0
    /\ ind_period = 0
    /\ indicators = << >>
    /\ df_len = 0 /\ df_last2 = << >>
    /\ trend_direction = "neutral"
    /\ basic_reasoning = << >> /\ reasoning = << >>
    /\ response = NoResponse /\ raised = FALSE
    /\ NoScores /\ NoRun

SpecSeries == InitSeries /\ [][NextAnalyze]_vars

\* the whole series was analysed: no row fell outside the timeframe's window
Analysed(n) ==
    /\ pc = "analyzed" /\ ~raised
    /\ Len(market_data.rows) = n /\ df_len = n

ConstantPrices ==
    \A i \in 1..Len(market_data.rows) :
        market_data.rows[i].price_usd = market_data.rows[1].price_usd

StrictlyIncreasing ==
    \A i \in 2..Len(market_data.rows) :
        market_data.rows[i - 1].price_usd < market_data.rows[i].price_usd

StrictlyDecreasing ==
    \A i \in 2..Len(market_data.rows) :
        market_data.rows[i - 1].price_usd > market_data.rows[i].price_usd

FlatVolume ==
    \A i \in 1..Len(market_data.rows) :
        market_data.rows[i].volume_24h = market_data.rows[1].volume_24h

IndicatorBonus == Min2(20, 2 * IndicatorCount(indicators))

C14_IncreasingIsBullish ==
    (Analysed(250) /\ StrictlyIncreasing /\ FlatVolume /\ timeframe = "24h") =>
        /\ trend_direction = "bullish"
        /\ predicted_price > indicators["current_price"].v

\* C15: every series of 20 strictly decreasing prices has RSI 0, is rated
\* bearish and has a predicted price below the current price, on every
\* timeframe.
C15_DecreasingIsBearish ==
    (Analysed(20) /\ StrictlyDecreasing) =>
        /\ indicators["rsi"] = Num(RsiPts(0))
        /\ trend_direction = "bearish"
        /\ predicted_price < indicators["current_price"].v


-----------------------------------------------------------------------------
(* SpecCollector: DataFetcher.fetch_and_store, one action per source of the *)
(* loop and one for the status update and the return.                       *)

\* self.api_clients, by source_name
api_clients == <<"CoinGecko", "CryptoCompare", "Binance">>

\* what a client's fetch_dogecoin_data can hand back: None, or a dict with
\* every key set; price_usd is taken from the response and may be missing
\* (None), zero, negative, a string that is not a number, or a float NaN
\* (json accepts the literal NaN, and Binance's float() the string "NaN")
NoData == [k |-> "none", v |-> 0]
FetchedPrices == {Num(1000), Num(0), Num(0 - 5), None, Str("n/a"), NaN}
FetchedData ==
    {[price_usd |-> price, timestamp |-> Num(0), volume_24h |-> volume] :
        price \in FetchedPrices, volume \in {None, Num(10)}}

\* `data and ...`: None and the empty dict are falsy
HasData(data) == data # NoData /\ DOMAIN data # {}

_validate_data(data) ==
    IF \E field \in {"price_usd", "timestamp"} :
           field \notin DOMAIN data \/ data[field] = None
    THEN FALSE
    ELSE IF data["price_usd"].k = "str" THEN FALSE
    ELSE ~(data["price_usd"].k = "num" /\ data["price_usd"].v <= 0)

\* the branch of the loop body taken for one source
SourceOutcome(fetch_raises, data, store_ok) ==
    IF fetch_raises THEN "exception"
    ELSE IF ~(HasData(data) /\ _validate_data(data)) THEN "invalid"
    ELSE IF store_ok THEN "stored"
    ELSE "store_failed"

ErrorMessage(outcome, source_name) ==
    CASE outcome = "exception" -> <<"Error fetching from ", source_name>>
      [] outcome = "invalid" -> <<"Invalid or missing data from ", source_name>>
      [] outcome = "store_failed" -> <<"Failed to store data from ", source_name>>

\* a loop that gives up at the first source that raises
NextSource_StopOnException(i, outcome) ==
    IF outcome = "exception" THEN Len(api_clients) ELSE i + 1

\* the for loop goes on to the next source whatever the body did
NextSource(i, outcome) == i + 1

\* 'success' if success_count > 0 else 'error'
CollectorStatus(count) == IF count > 0 THEN "success" ELSE "error"

\* the row a previous run left in script_status, if any
PreviousStatuses ==
    {[status |-> st, message |-> << >>] : st \in {"none", "success", "error"}}

InitCollector ==
    /\ pc = "collect"
    /\ source_index = 0 /\ success_count = 0 /\ error_messages = << >>
    /\ attempts = << >>
    /\ collector_status \in PreviousStatuses
    /\ status_committed = FALSE /\ returned = "pending"
    /\ stored_before = 0
    /\ NoClient
    /\ tf_index = 0 /\ status = "idle" /\ saved = << >> /\ failed = {}
    /\ status_updates = << >> /\ fetch_outcome = "none"
    /\ table = [cols |-> AllCols, rows |-> << >>]
    /\ fetches = 0 /\ handed = << >>
    /\ timeframe = "1h" /\ indicators = << >>
    /\ df_len = 0 /\ df_last2 = << >>
    /\ trend_direction = "neutral"
    /\ NoFrame /\ NoScores /\ NoText

\* one pass of the loop body: fetch, validate, store, with the except clause
AttemptSource ==
    /\ pc = "collect"
    /\ source_index < Len(api_clients)
    /\ \E fetch_raises \in BOOLEAN, data \in FetchedData \cup {NoData},
          store_ok \in BOOLEAN :
         \E outcome \in {SourceOutcome(fetch_raises, data, store_ok)} :
             /\ attempts' = Append(attempts,
                                   [source |-> api_clients[source_index + 1],
                                    price_usd |-> IF fetch_raises \/ data = NoData
                                                  THEN None ELSE data.price_usd,
                                    outcome |-> outcome])
             /\ IF outcome = "stored"
                THEN /\ success_count' = success_count + 1
                     /\ table' = [table EXCEPT !.rows =
                                    Append(@, [timestamp |-> data.timestamp.v,
                                               price_usd |-> data.price_usd,
                                               volume_24h |-> data.volume_24h])]
                     /\ UNCHANGED error_messages
                ELSE /\ error_messages' =
                          Append(error_messages,
                                 ErrorMessage(outcome, api_clients[source_index + 1]))
                     /\ UNCHANGED <<success_count, table>>
             /\ source_index' = NextSource(source_index, outcome)
    /\ pc' = IF source_index' >= Len(api_clients) THEN "update_status" ELSE "collect"
    /\ UNCHANGED <<collector_status, status_committed, returned, stored_before,
                   clientVars>>
    /\ UNCHANGED <<frameVars, scoreVars, textVars, timeframe, indicators, df_len,
                   df_last2, trend_direction, tf_index, status, status_updates,
                   saved, failed,
                   fetches, fetch_outcome, handed>>

\* _update_script_status (a failed commit is logged and swallowed), then the
\* return
FinishCollect ==
    /\ pc = "update_status"
    /\ \E commit_ok \in BOOLEAN :
         /\ status_committed' = commit_ok
         /\ collector_status' =
               IF commit_ok
               THEN [status |-> CollectorStatus(success_count),
                     message |-> <<success_count, Len(api_clients),
                                   SubSeq(error_messages, 1,
                                          Min2(3, Len(error_messages)))>>]
               ELSE collector_status
    /\ returned' = IF success_count > 0 THEN "true" ELSE "false"
    /\ pc' = "returned"
    /\ UNCHANGED <<source_index, success_count, error_messages, attempts, table,
                   stored_before, clientVars>>
    /\ UNCHANGED <<frameVars, scoreVars, textVars, timeframe, indicators, df_len,
                   df_last2, trend_direction, tf_index, status, status_updates,
                   saved, failed,
                   fetches, fetch_outcome, handed>>

\* rows the table may hold when fetch_and_store is called once more
MaxStored == 1

\* the scheduler's next collect_data: update_status('running') (a failed
\* commit is logged and rolled back), then fetch_and_store once more
CollectAgain ==
    /\ pc = "returned"
    /\ Len(table.rows) < MaxStored
    /\ \E commit_ok \in BOOLEAN :
         collector_status' = IF commit_ok
                             THEN [status |-> "running", message |-> << >>]
                             ELSE collector_status
    /\ pc' = "collect"
    /\ source_index' = 0 /\ success_count' = 0 /\ error_messages' = << >>
    /\ attempts' = << >>
    /\ status_committed' = FALSE /\ returned' = "pending"
    /\ stored_before' = Len(table.rows)
    /\ UNCHANGED <<table, clientVars>>
    /\ UNCHANGED <<frameVars, scoreVars, textVars, timeframe, indicators, df_len,
                   df_last2, trend_direction, tf_index, status, status_updates,
                   saved, failed,
                   fetches, fetch_outcome, handed>>

NextCollector == AttemptSource \/ FinishCollect \/ CollectAgain

SpecCollector == InitCollector /\ [][NextCollector]_vars

StoredSources == {i \in 1..Len(attempts) : attempts[i].outcome = "stored"}

\* C16: fetch_and_store returns True exactly when at least one source's data
\* was fetched, validated and stored; a committed collector status is
\* 'success' exactly when it returns True and 'error' exactly when it returns
\* False; and every source is attempted, in order, whatever happened to the
\* sources before it.
C16_ReturnsTrueIffStored ==
    /\ Len(table.rows) = stored_before + Cardinality(StoredSources)
    /\ success_count = Cardinality(StoredSources)
    /\ \A i \in 1..Len(attempts) : attempts[i].source = api_clients[i]
    /\ pc = "collect" => (source_index = Len(attempts)
                          /\ Len(attempts) < Len(api_clients))
    /\ pc # "returned" => returned = "pending"
    /\ pc = "returned" =>
          /\ Len(attempts) = Len(api_clients)
          /\ returned \in {"true", "false"}
          /\ returned = "true" <=> StoredSources # {}
          /\ status_committed =>
                /\ collector_status.status = "success" <=> returned = "true"
                /\ collector_status.status = "error" <=> returned = "false"

C16_Witness ==
    /\ pc = "returned" /\ returned = "true" /\ status_committed
    /\ collector_status.status = "success"
    /\ attempts[1].outcome = "exception"
    /\ attempts[2].outcome = "invalid"
    /\ attempts[3].outcome = "stored"

\* C30 as stated: after any number of fetch_and_store runs every stored
\* record has a timestamp and a numeric price_usd above 0, and a fetched
\* record whose price is missing, not a number, zero or negative is not
\* stored and counts as a failed source.
C30_StoredPricesPositive ==
    /\ \A i \in 1..Len(table.rows) :
          /\ table.rows[i].timestamp \in Int
          /\ table.rows[i].price_usd.k = "num"
          /\ table.rows[i].price_usd.v > 0
    /\ \A i \in 1..Len(attempts) :
          ~(attempts[i].price_usd.k = "num" /\ attempts[i].price_usd.v > 0)
             => attempts[i].outcome # "stored"

-----------------------------------------------------------------------------
(* SpecClient: one API client over time.  fetch_dogecoin_data is called     *)
(* again and again; each call first passes the client's RateLimiter and     *)
(* then runs the retry loop around requests.get.  Time is in seconds.       *)

\* config/settings.py
MAX_RETRIES == 3
RETRY_DELAY == 2

\* the limiter's max_calls is drawn from 1..MaxCalls and its time_window is
\* TimeWindow; calls begin no later than MaxClock, at most MaxFetches of them
MaxCalls == 2
TimeWindow == 3
MaxClock == 6
MaxFetches == 3

\* a limiter that does not clean up again after sleeping
wait_if_needed_NoCleanup(limiter, t_now, oversleep) ==
    LET Recent(call_time) == t_now - call_time < limiter.time_window
        calls == SelectSeq(limiter.calls, Recent)
        full == Len(calls) >= limiter.max_calls
        sleep_time == IF full THEN limiter.time_window - (t_now - calls[1]) + 1
                      ELSE 0
        sleeps == full /\ sleep_time > 0
        woke == IF sleeps THEN t_now + sleep_time + oversleep ELSE t_now
    IN  [limiter |-> [limiter EXCEPT !.calls = Append(calls, woke)],
         now |-> woke,
         wait |-> [entered |-> t_now, slept |-> woke - t_now,
                   oldest |-> IF full THEN calls[1] ELSE 0, full |-> full]]

\* RateLimiter.wait_if_needed entered at t_now; time.sleep returns after the
\* time asked for, or `oversleep` seconds later.  The result is the limiter
\* afterwards, the time recorded for the call, and what the call did
wait_if_needed(limiter, t_now, oversleep) ==
    LET Recent(call_time) == t_now - call_time < limiter.time_window
        calls == SelectSeq(limiter.calls, Recent)
        full == Len(calls) >= limiter.max_calls
        sleep_time == IF full THEN limiter.time_window - (t_now - calls[1]) + 1
                      ELSE 0
        sleeps == full /\ sleep_time > 0
        woke == IF sleeps THEN t_now + sleep_time + oversleep ELSE t_now
        StillRecent(call_time) == woke - call_time < limiter.time_window
        kept == IF sleeps THEN SelectSeq(calls, StillRecent) ELSE calls
    IN  [limiter |-> [limiter EXCEPT !.calls = Append(kept, woke)],
         now |-> woke,
         wait |-> [entered |-> t_now, slept |-> woke - t_now,
                   oldest |-> IF full THEN calls[1] ELSE 0, full |-> full]]

\* what the server does with one requests.get:
\*   "request_exception"  timeout, connection error or an HTTP error status
\*   "complete"           a JSON object with the expected entry and fields
\*   "no_entry"           a JSON object without the coin's entry (CoinGecko:
\*                        no 'dogecoin'; CryptoCompare: no 'RAW' or no 'DOGE'
\*                        in it; Binance: none of the ticker's fields)
\*   "null_body"          the JSON value null
\*   "not_json"           a body response.json() cannot decode
HttpResponses ==
    {"request_exception", "complete", "no_entry", "null_body", "not_json"}

\* what one pass of the try block comes to.  The decoding error of
\* response.json() is a RequestException in some versions of requests and a
\* plain ValueError in others
AttemptOutcome(name, resp, decode_error_is_request_exception) ==
    CASE resp = "request_exception" -> "retry"
      [] resp = "complete" -> "data"
      [] resp = "no_entry" -> IF name = "Binance" THEN "defaults" ELSE "none"
      [] resp = "null_body" -> "raised"
      [] resp = "not_json" ->
            IF decode_error_is_request_exception THEN "retry"
            ELSE IF name = "Binance" THEN "none" ELSE "raised"

\* a constant delay between attempts
SleepBeforeRetry_Constant(i) == RETRY_DELAY

\* time.sleep(RETRY_DELAY * (attempt + 1))
SleepBeforeRetry(i) == RETRY_DELAY * (i + 1)

NoStore ==
    /\ source_index = 0 /\ success_count = 0 /\ error_messages = << >>
    /\ attempts = << >>
    /\ collector_status = [status |-> "none", message |-> << >>]
    /\ status_committed = FALSE /\ returned = "pending"
    /\ stored_before = 0

InitClient ==
    /\ pc = "idle"
    /\ clock = 0
    /\ client \in {api_clients[i] : i \in 1..Len(api_clients)}
    /\ \E max_calls \in 1..MaxCalls :
         rate_limiter = [max_calls |-> max_calls, time_window |-> TimeWindow,
                         calls |-> << >>]
    /\ admitted = << >> /\ last_wait = NoWait
    /\ attempt = 0 /\ requests_made = << >> /\ retry_sleeps = << >>
    /\ fetch_result = "pending"
    /\ NoStore
    /\ tf_index = 0 /\ status = "idle" /\ saved = << >> /\ failed = {}
    /\ status_updates = << >> /\ fetch_outcome = "none"
    /\ table = EmptyFrame
    /\ fetches = 0 /\ handed = << >>
    /\ timeframe = "1h" /\ indicators = << >>
    /\ df_len = 0 /\ df_last2 = << >>
    /\ trend_direction = "neutral"
    /\ NoFrame /\ NoScores /\ NoText

otherVars == <<frameVars, scoreVars, textVars, timeframe, indicators, df_len,
               df_last2, trend_direction, tf_index, status, status_updates,
               saved, failed, table, fetches, fetch_outcome, handed, storeVars>>

\* a second passes between two calls of fetch_dogecoin_data
Tick ==
    /\ pc = "idle"
    /\ clock < MaxClock
    /\ clock' = clock + 1
    /\ UNCHANGED <<pc, rate_limiter, admitted, last_wait, client, attempt,
                   requests_made, retry_sleeps, fetch_result, otherVars>>

\* fetch_dogecoin_data up to its loop: self.rate_limiter.wait_if_needed()
StartFetch ==
    /\ pc = "idle"
    /\ Len(admitted) < MaxFetches
    /\ \E oversleep \in {0, 1} :
         \E w \in {wait_if_needed(rate_limiter, clock, oversleep)} :
             /\ rate_limiter' = w.limiter
             /\ clock' = w.now
             /\ admitted' = Append(admitted, w.now)
             /\ last_wait' = w.wait
    /\ attempt' = 0 /\ requests_made' = << >> /\ retry_sleeps' = << >>
    /\ fetch_result' = "pending"
    /\ pc' = "requesting"
    /\ UNCHANGED <<client, otherVars>>

\* one pass of `for attempt in range(MAX_RETRIES)`: requests.get, and either
\* a return, an exception that leaves the function, or the except clause:
\* sleep and go round again, or give up after the last attempt
HttpAttempt ==
    /\ pc = "requesting"
    /\ \E resp \in HttpResponses, decode_error_is_request_exception \in BOOLEAN :
         \E outcome \in {AttemptOutcome(client, resp,
                                        decode_error_is_request_exception)} :
             /\ requests_made' = Append(requests_made,
                                        [response |-> resp, outcome |-> outcome])
             /\ IF outcome = "retry" /\ attempt < MAX_RETRIES - 1
                THEN /\ retry_sleeps' = Append(retry_sleeps, SleepBeforeRetry(attempt))
                     /\ clock' = clock + SleepBeforeRetry(attempt)
                     /\ attempt' = attempt + 1
                     /\ pc' = "requesting"
                     /\ UNCHANGED fetch_result
                ELSE /\ fetch_result' = IF outcome = "retry" THEN "none" ELSE outcome
                     /\ pc' = "fetched"
                     /\ UNCHANGED <<retry_sleeps, clock, attempt>>
    /\ UNCHANGED <<rate_limiter, admitted, last_wait, client, otherVars>>

\* the caller has the result; the client is ready for the next call
ReturnToCaller ==
    /\ pc = "fetched"
    /\ pc' = "idle"
    /\ UNCHANGED <<clock, rate_limiter, admitted, last_wait, client, attempt,
                   requests_made, retry_sleeps, fetch_result, otherVars>>

NextClient == Tick \/ StartFetch \/ HttpAttempt \/ ReturnToCaller

SpecClient == InitClient /\ [][NextClient]_vars

\* calls admitted during the time_window seconds that end with call i
AdmittedInWindowOf(i) ==
    Cardinality({j \in 1..Len(admitted) :
                    /\ admitted[i] - rate_limiter.time_window < admitted[j]
                    /\ admitted[j] <= admitted[i]})

\* C28: after a wait_if_needed call returns the limiter's list holds at most
\* max_calls timestamps (those of the latest admitted calls), no window of
\* time_window seconds holds more than max_calls admitted calls, and a call
\* that finds the limit reached is not rejected but admitted after a sleep
\* that lets the oldest recorded call leave the window; a call that finds
\* room is admitted at once.
C28_LimiterHoldsMaxCalls ==
    /\ Len(rate_limiter.calls) <= rate_limiter.max_calls
    /\ Len(rate_limiter.calls) <= Len(admitted)
    /\ rate_limiter.calls =
          SubSeq(admitted, Len(admitted) - Len(rate_limiter.calls) + 1,
                 Len(admitted))
    /\ \A i \in 1..Len(admitted) : AdmittedInWindowOf(i) <= rate_limiter.max_calls
    /\ Len(admitted) > 0 =>
          /\ admitted[Len(admitted)] = last_wait.entered + last_wait.slept
          /\ last_wait.full =>
                /\ last_wait.slept > 0
                /\ admitted[Len(admitted)] - last_wait.oldest
                      >= rate_limiter.time_window
          /\ ~last_wait.full => last_wait.slept = 0

\* the limit of two calls was reached and the third call was delayed
C28_Witness ==
    /\ pc = "requesting"
    /\ rate_limiter.max_calls = 2
    /\ Len(admitted) = 3
    /\ last_wait.full /\ last_wait.slept > 0
    /\ Len(rate_limiter.calls) = 2

\* the attempts of the current call that ended with a request exception
FailedRequests ==
    {i \in 1..Len(requests_made) : requests_made[i].outcome = "retry"}

\* the call of fetch_dogecoin_data has ended
FetchEnded == pc # "requesting" /\ Len(requests_made) > 0

\* the parts of C29 that do not depend on what a response holds: at most
\* MAX_RETRIES attempts, a further attempt only after a request exception,
\* a wait of RETRY_DELAY x k before attempt k + 1 and none after the last
\* attempt, and None after MAX_RETRIES failed attempts
RetryDiscipline ==
    /\ Len(requests_made) <= MAX_RETRIES
    /\ pc = "requesting" =>
          (Len(requests_made) = attempt /\ attempt < MAX_RETRIES)
    /\ \A i \in 1..(Len(requests_made) - 1) : i \in FailedRequests
    /\ Len(retry_sleeps) =
          IF Cardinality(FailedRequests) < MAX_RETRIES
          THEN Cardinality(FailedRequests) ELSE MAX_RETRIES - 1
    /\ \A k \in 1..Len(retry_sleeps) : retry_sleeps[k] = RETRY_DELAY * k
    /\ FetchEnded =>
          /\ fetch_result # "pending"
          /\ Len(requests_made) \notin FailedRequests \/
                (Len(requests_made) = MAX_RETRIES /\ fetch_result = "none")

=============================================================================
